---- MODULE Spec2Model ----
(***************************************************************************)
(* Homelab Intelligence Core: the analyze pipeline of the edge worker      *)
(* (fleet fan-out, per-repository analysis, consolidation plan, result     *)
(* store, response) and the autonomous pull-request generator (opportunity *)
(* selection, change application).                                         *)
(*                                                                         *)
(* JavaScript values are tagged records [t, v]; an exception raised by a   *)
(* function is the value [t |-> "throw", v |-> message] returned in place  *)
(* of its result, and every caller tests for it where the source has a     *)
(* try/catch, an allSettled or nothing at all.                             *)
(***************************************************************************)
EXTENDS Integers, Sequences, FiniteSets, TLC

(***************************************************************************)
(* Bounds of the model.                                                    *)
(***************************************************************************)
\* How many entries of the worker's repository list one run fans out over.
NumRepos == 2

\* How many change applications (generateOptimizationPR calls) are made.
MaxApplications == 2

\* How far the clock read by Date.now() advances.
MaxClock == 1

\* How many times generateConstellationOptimizations is run.
MaxRuns == 2

\* How many host requests of the runs fail for reasons outside the host's
\* state (network, permissions, rate limits).
MaxFaults == 1

(***************************************************************************)
(* JavaScript values.                                                      *)
(***************************************************************************)
JUndef == [t |-> "undef", v |-> 0]
JNull == [t |-> "null", v |-> 0]
JStr(s) == [t |-> "str", v |-> s]
JNum(n) == [t |-> "num", v |-> n]
JArr(a) == [t |-> "arr", v |-> a]
JObj(f) == [t |-> "obj", v |-> f]
EmptyArr == JArr(<< >>)

Throw(m) == [t |-> "throw", v |-> m]
IsThrow(x) == x.t = "throw"

\* A TypeError: reading a property of null or undefined.
TypeErrorMsg == [msg |-> "TypeError: Cannot read properties", status |-> 0]

\* ToBoolean: what `x || d` and `cond ? a : b` test.
Truthy(x) ==
    /\ x.t \notin {"undef", "null"}
    /\ (x.t = "str" => x.v # "")
    /\ (x.t = "num" => x.v # 0)

\* x || d
Or(x, d) == IF Truthy(x) THEN x ELSE d

\* Whether o.f can be evaluated without a TypeError.
CanRead(o) == o.t \notin {"undef", "null"}

\* o.f for a property name other than length, o neither null nor undefined.
Get(o, f) == IF o.t = "obj" /\ f \in DOMAIN o.v THEN o.v[f] ELSE JUndef

\* The length in characters of the string literals the model uses.
StrLen(s) ==
    CASE s = "" -> 0
      [] s = "low" -> 3
      [] s = "high" -> 4
      [] s = "medium" -> 6
      [] s = "none found" -> 10
      [] OTHER -> 1

\* o.length, o neither null nor undefined.
JLength(o) ==
    CASE o.t = "arr" -> JNum(Len(o.v))
      [] o.t = "str" -> JNum(StrLen(o.v))
      [] o.t = "obj" -> Get(o, "length")
      [] OTHER -> JUndef

\* x > 0 for a number x or undefined (undefined > 0 is false).
GtZero(x) == x.t = "num" /\ x.v > 0

\* Array.isArray
IsArray(x) == x.t = "arr"

(***************************************************************************)
(* The fleet.                                                              *)
(***************************************************************************)
\* The repository list of analyzeRepositoryConstellation.
Registry ==
    << "complete-homelab-orchestrator", "homelab-production",
       "r240-homelab-orchestrator", "protohome", "homelab-deploy", "homeops",
       "homelab-rns-lol", "homelab-gitops-reorg", "homelab-gitops",
       "homelab-zenith-86", "homelab-zenith", "homelab-ops" >>

\* The entries one run of the model fans out over, in registry order.
repositories == SubSeq(Registry, 1, NumRepos)

RepoIdx == 1 .. NumRepos

\* The three sub-analyses of analyzeRepository, in the order it starts them.
Kinds == << "architecture", "security", "community_context" >>
KindSet == {Kinds[i] : i \in 1 .. Len(Kinds)}

(***************************************************************************)
(* HTTP replies.  A reply is [status, envelope, content]: status 0 stands  *)
(* for a fetch that rejects (no response at all), envelope says whether    *)
(* the body has choices[0].message, content is the text of                 *)
(* choices[0].message.content.                                             *)
(***************************************************************************)
Reply(status, envelope, content) ==
    [status |-> status, envelope |-> envelope, content |-> content]

\* response.ok
ResponseOk(reply) == reply.status >= 200 /\ reply.status <= 299

NetworkErrorMsg == [msg |-> "fetch failed", status |-> 0]

TextProse == "The repository looks fine overall."
TextNull == "null"
TextFindings ==
    "{\"patterns\":[\"gitops\"],\"duplication_risk\":\"high\",\"optimizations\":[\"pin versions\"],\"vulnerabilities\":[\"CVE-1\"],\"trends\":[\"k3s\"]}"
TextPlanPartial == "{\"duplications\":[\"d1\"],\"optimizations\":[\"o1\",\"o2\"]}"
TextPlanString == "{\"duplications\":\"none found\",\"risks\":[]}"

\* JSON.parse on the texts the model's backends answer with; any other text
\* is not JSON and raises a SyntaxError.
JSONparse(text) ==
    CASE text = TextNull -> JNull
      [] text = TextFindings ->
            JObj([patterns |-> JArr(<< "gitops" >>),
                  duplication_risk |-> JStr("high"),
                  optimizations |-> JArr(<< "pin versions" >>),
                  vulnerabilities |-> JArr(<< "CVE-1" >>),
                  trends |-> JArr(<< "k3s" >>)])
      [] text = TextPlanPartial ->
            JObj([duplications |-> JArr(<< "d1" >>),
                  optimizations |-> JArr(<< "o1", "o2" >>)])
      [] text = TextPlanString ->
            JObj([duplications |-> JStr("none found"), risks |-> EmptyArr])
      [] OTHER -> Throw([msg |-> "SyntaxError: Unexpected token", status |-> 0])

(***************************************************************************)
(* Service adapters.                                                       *)
(***************************************************************************)
\* callG4FAPI: what the call returns, or throws, on a reply.  A body without
\* choices[0].message raises a TypeError inside the try and again in the
\* catch block that builds the fallback, so it leaves the function.
callG4FAPI(reply) ==
    IF reply.status = 0 THEN Throw(NetworkErrorMsg)
    ELSE IF ~ResponseOk(reply)
    THEN Throw([msg |-> "G4F API error", status |-> reply.status])
    ELSE IF ~reply.envelope THEN Throw(TypeErrorMsg)
    ELSE LET parsed == JSONparse(reply.content)
         IN  IF IsThrow(parsed)
             THEN JObj([analysis |-> JStr(reply.content)])
             ELSE parsed

\* callPerplexityAPI
callPerplexityAPI(reply) ==
    IF reply.status = 0 THEN Throw(NetworkErrorMsg)
    ELSE IF ~ResponseOk(reply)
    THEN Throw([msg |-> "Perplexity API error", status |-> reply.status])
    ELSE IF ~reply.envelope THEN Throw(TypeErrorMsg)
    ELSE LET parsed == JSONparse(reply.content)
         IN  IF IsThrow(parsed)
             THEN JObj([research |-> JStr(reply.content)])
             ELSE parsed

\* The host metadata of a repository, as the host returns it.
RepoData(name) ==
    JObj([name |-> JStr(name), description |-> JNull,
          language |-> JStr("TypeScript"), default_branch |-> JStr("main")])

\* fetchGitHubRepository: status 200 carries the repository's metadata.
fetchGitHubRepository(repoName, reply) ==
    IF reply.status = 0 THEN Throw(NetworkErrorMsg)
    ELSE IF ~ResponseOk(reply)
    THEN Throw([msg |-> "GitHub API error", status |-> reply.status])
    ELSE RepoData(repoName)

(***************************************************************************)
(* Sub-analyses: the value the async function resolves to, or the          *)
(* exception it rejects with (building the prompt is outside the try).     *)
(***************************************************************************)
\* The architecture finding copied from the backend's answer as it is,
\* without the defaults.
architectureOfNoDefaults(analysis) ==
    JObj([patterns |-> Get(analysis, "patterns"),
          iac_approach |-> Get(analysis, "iac_approach"),
          integrations |-> Get(analysis, "integrations"),
          optimizations |-> Get(analysis, "optimizations"),
          duplication_risk |-> Get(analysis, "duplication_risk")])

architectureOf(analysis) ==
    JObj([patterns |-> Or(Get(analysis, "patterns"), EmptyArr),
          iac_approach |-> Or(Get(analysis, "iac_approach"), JStr("unknown")),
          integrations |-> Or(Get(analysis, "integrations"), EmptyArr),
          optimizations |-> Or(Get(analysis, "optimizations"), EmptyArr),
          duplication_risk |-> Or(Get(analysis, "duplication_risk"), JStr("low"))])

analyzeArchitecture(githubData, reply) ==
    IF ~CanRead(githubData) THEN Throw(TypeErrorMsg)
    ELSE LET analysis == callG4FAPI(reply)
         IN  IF IsThrow(analysis) \/ ~CanRead(analysis)
             THEN JNull
             ELSE architectureOf(analysis)

securityOf(analysis) ==
    JObj([secrets_management |-> Or(Get(analysis, "secrets_management"), JStr("unknown")),
          access_control |-> Or(Get(analysis, "access_control"), JStr("unknown")),
          vulnerabilities |-> Or(Get(analysis, "vulnerabilities"), EmptyArr),
          compliance_score |-> Or(Get(analysis, "compliance_score"), JNum(0)),
          recommendations |-> Or(Get(analysis, "recommendations"), EmptyArr)])

analyzeSecurityPosture(githubData, reply) ==
    IF ~CanRead(githubData) THEN Throw(TypeErrorMsg)
    ELSE LET analysis == callG4FAPI(reply)
         IN  IF IsThrow(analysis) \/ ~CanRead(analysis)
             THEN JNull
             ELSE securityOf(analysis)

communityOf(research) ==
    JObj([trends |-> Or(Get(research, "trends"), EmptyArr),
          community_discussions |-> Or(Get(research, "discussions"), EmptyArr),
          similar_projects |-> Or(Get(research, "similar_projects"), EmptyArr),
          recommendations |-> Or(Get(research, "recommendations"), EmptyArr)])

getCommmunityContext(reply) ==
    LET research == callPerplexityAPI(reply)
    IN  IF IsThrow(research) \/ ~CanRead(research)
        THEN JNull
        ELSE communityOf(research)

\* The sub-analysis of one kind.
SubAnalysis(kind, githubData, reply) ==
    CASE kind = "architecture" -> analyzeArchitecture(githubData, reply)
      [] kind = "security" -> analyzeSecurityPosture(githubData, reply)
      [] OTHER -> getCommmunityContext(reply)

\* Promise.allSettled's reading of one outcome, as analyzeRepository uses
\* it: status === 'fulfilled' ? value : null.
SettledValueOrNull(outcome) == IF IsThrow(outcome) THEN JNull ELSE outcome

(***************************************************************************)
(* State.                                                                  *)
(***************************************************************************)
VARIABLES
    pc,          \* where the worker's request handler stands
    meta,        \* per repository: its host-metadata fetch
    sub,         \* per repository and kind: its sub-analysis
    subReply,    \* per repository and kind: the reply its backend gave
    successful,  \* analyzeRepositoryConstellation's successful
    failed,      \* analyzeRepositoryConstellation's failed
    backendRequests, \* the sub-analysis backend requests issued so far
    synthPrompts,\* the prompts of the synthesis requests issued, in order
    plan,        \* the consolidation plan
    stored,      \* what the result store holds
    storeWrite,  \* how the store write ended
    respStatus,  \* the HTTP status of the response, 0 before it is sent
    respBody,    \* the body of the response
    selPc,       \* the opportunity selector: "ready" or "selected"
    selInput,    \* the AnalysisResult handed to identifyPROpportunities
    selOutput,   \* what identifyPROpportunities returned
    now,         \* Date.now()
    hostRefs,    \* the host's branches: [repo, name]
    hostFiles,   \* the host's files: [repo, branch, path, sha]
    hostPRs,     \* the host's pull requests, in order of creation
    apPc,        \* the change applier: "idle" or the host call in flight
    apCount,     \* the generateOptimizationPR calls made so far
    apRepo,      \* the repository of the current (or last) application
    apOpp,       \* its opportunity
    apBranch,    \* its branch name
    apFiles,     \* its generated files
    apFilePos,   \* the file createOrUpdateFile is working on
    apLookup,    \* what the lookup of that file returned
    apWrite,     \* the write request in flight
    apInTry,     \* whether that write is the one inside createOrUpdateFile's try
    apPr,        \* the number of the pull request it created, 0 before
    apLog,       \* the host requests it has issued, in order
    apResult,    \* what the last generateOptimizationPR call returned or threw
    runPc,       \* generateConstellationOptimizations: "idle", "running", "done"
    runCount,    \* the runs started so far
    runInput,    \* analysisResults.repositories
    runRepo,     \* the position of the for loop in REPOSITORY_CONSTELLATION
    prTypes,     \* the opportunities of the current repository
    runPos,      \* the position of the inner loop in prTypes
    runAwait,    \* whether a generateOptimizationPR call is awaited
    prResults,   \* the results pushed so far
    remediated,  \* the repositories the current run has selected opportunities for
    faults,      \* the host requests that have failed from outside
    adPc,        \* a service adapter call: "idle", "awaiting", "returned"
    adService,   \* which adapter was called
    adReply,     \* the reply its fetch got
    adResult,    \* what it returned or threw
    reqMethod,   \* request.method of the request the worker was given
    reqPath      \* url.pathname of that request

workerVars ==
    << pc, meta, sub, subReply, backendRequests, successful, failed,
       synthPrompts, plan, stored, storeWrite, respStatus, respBody >>

selectorVars == << selPc, selInput, selOutput >>

hostVars == << hostRefs, hostFiles, hostPRs >>

applierVars ==
    << now, hostVars, apPc, apCount, apRepo, apOpp, apBranch, apFiles,
       apFilePos, apLookup, apWrite, apInTry, apPr, apLog, apResult >>

adapterVars == << adPc, adService, adReply, adResult >>

requestVars == << reqMethod, reqPath >>

runVars ==
    << runPc, runCount, runInput, runRepo, prTypes, runPos, runAwait,
       prResults, remediated, faults >>

Idle == [t |-> "idle", v |-> 0]
Pending == [t |-> "pending", v |-> 0]

\* A call whose request was sent and that will never come back.
Hung == [t |-> "hung", v |-> 0]

\* A call that has been made and has come back.
IsSettled(x) == x.t \notin {"idle", "pending", "hung"}

(***************************************************************************)
(* Per-repository analysis.                                                *)
(***************************************************************************)
\* analysisResult with one failed sub-analysis voiding all three findings.
analysisResultAllOrNothing(repoName, githubData, subs) ==
    LET anyFailed == \E k \in KindSet : IsThrow(subs[k]) \/ subs[k] = JNull
    IN  JObj([name |-> JStr(repoName),
              github_data |-> githubData,
              architecture |-> IF anyFailed THEN JNull ELSE subs["architecture"],
              security |-> IF anyFailed THEN JNull ELSE subs["security"],
              community_context |->
                  IF anyFailed THEN JNull ELSE subs["community_context"]])

\* analyzeRepository: the AnalysisResult built from the metadata and the
\* three settled sub-analyses.
analysisResult(repoName, githubData, subs) ==
    JObj([name |-> JStr(repoName),
          github_data |-> githubData,
          architecture |-> SettledValueOrNull(subs["architecture"]),
          security |-> SettledValueOrNull(subs["security"]),
          community_context |-> SettledValueOrNull(subs["community_context"])])

NoReason == [msg |-> "", status |-> 0]

\* analyzeRepository joining its sub-analyses with a failure of any of them
\* failing the repository.
analyzeRepositoryFailFast(repoName, metaOutcome, subs) ==
    IF IsThrow(metaOutcome)
    THEN [status |-> "rejected", value |-> JUndef, reason |-> metaOutcome.v]
    ELSE IF \E k \in KindSet : IsThrow(subs[k]) \/ subs[k] = JNull
    THEN [status |-> "rejected", value |-> JUndef, reason |-> TypeErrorMsg]
    ELSE [status |-> "fulfilled",
          value |-> analysisResult(repoName, metaOutcome, subs),
          reason |-> NoReason]

\* What Promise.allSettled reports for analyzeRepository(repoName): rejected
\* with the metadata fetch's error, or fulfilled with the AnalysisResult.
analyzeRepository(repoName, metaOutcome, subs) ==
    IF IsThrow(metaOutcome)
    THEN [status |-> "rejected", value |-> JUndef, reason |-> metaOutcome.v]
    ELSE [status |-> "fulfilled",
          value |-> analysisResult(repoName, metaOutcome, subs),
          reason |-> NoReason]

\* Whether analyzeRepository for entry i has settled.
RepoSettled(i) ==
    \/ IsThrow(meta[i])
    \/ /\ IsSettled(meta[i])
       /\ \A k \in KindSet : IsSettled(sub[i][k])

\* The array Promise.allSettled resolves to: input order, whatever the
\* order of completion.
analyses ==
    [i \in RepoIdx |-> analyzeRepository(repositories[i], meta[i], sub[i])]

IsFulfilled(result) == result.status = "fulfilled"
IsRejected(result) == result.status = "rejected"

\* successfulOf keeping only the analyses with an architecture finding.
successfulOfComplete(settled) ==
    LET kept == SelectSeq(settled,
                    LAMBDA a : IsFulfilled(a) /\ Get(a.value, "architecture") # JNull)
    IN  [j \in 1 .. Len(kept) |-> kept[j].value]

\* analyses.filter(fulfilled).map(result => result.value)
successfulOf(settled) ==
    LET kept == SelectSeq(settled, IsFulfilled)
    IN  [j \in 1 .. Len(kept) |-> kept[j].value]

\* analyses.filter(rejected).map((result, index) => ({repository:
\* repositories[index], error: result.reason.message})): index is the
\* position in the filtered array.
failedOf(settled) ==
    LET kept == SelectSeq(settled, IsRejected)
    IN  [j \in 1 .. Len(kept) |->
            [repository |-> repositories[j], error |-> kept[j].reason]]

(***************************************************************************)
(* Consolidation plan.                                                     *)
(***************************************************************************)
PlanFields ==
    {"duplications", "consolidations", "migrations", "risks", "priorities",
     "optimizations"}

EmptyPlan ==
    JObj([duplications |-> EmptyArr, consolidations |-> EmptyArr,
          migrations |-> EmptyArr, risks |-> EmptyArr,
          priorities |-> EmptyArr, optimizations |-> EmptyArr])

planOf(p) ==
    JObj([duplications |-> Or(Get(p, "duplications"), EmptyArr),
          consolidations |-> Or(Get(p, "consolidations"), EmptyArr),
          migrations |-> Or(Get(p, "migrations"), EmptyArr),
          risks |-> Or(Get(p, "risks"), EmptyArr),
          priorities |-> Or(Get(p, "priorities"), EmptyArr),
          optimizations |-> Or(Get(p, "optimizations"), EmptyArr)])

\* The prompt reads r.github_data.description of every successful analysis,
\* outside the try.
PlanPromptThrows(repos) ==
    \E j \in 1 .. Len(repos) : ~CanRead(Get(repos[j], "github_data"))

\* The repository lines of generateConsolidationPlan's prompt: one per
\* analysis handed to it, with its name, description and language.
planPromptOf(repos) ==
    [j \in 1 .. Len(repos) |->
        [name |-> Get(repos[j], "name"),
         description |-> Get(Get(repos[j], "github_data"), "description"),
         language |-> Get(Get(repos[j], "github_data"), "language")]]

\* generateConsolidationPlan without its try/catch.
generateConsolidationPlanNoCatch(repos, reply) ==
    IF PlanPromptThrows(repos) THEN Throw(TypeErrorMsg)
    ELSE LET p == callG4FAPI(reply)
         IN  IF IsThrow(p) THEN p
             ELSE IF ~CanRead(p) THEN Throw(TypeErrorMsg)
             ELSE planOf(p)

generateConsolidationPlan(repos, reply) ==
    IF PlanPromptThrows(repos) THEN Throw(TypeErrorMsg)
    ELSE LET p == callG4FAPI(reply)
         IN  IF IsThrow(p) \/ ~CanRead(p) THEN EmptyPlan ELSE planOf(p)

(***************************************************************************)
(* Result store.                                                           *)
(***************************************************************************)
\* The payload analyzeRepositoryConstellation hands to the store.
storePayload(succ, fail, p) ==
    JObj([successful_analyses |-> JNum(Len(succ)),
          failed_analyses |-> JNum(Len(fail)),
          repositories |-> JArr(succ),
          consolidation_plan |-> p])

StoreOutcomes == {"written", "rejected", "no_binding"}

\* The body of storeAnalysisResults' try block: a missing binding raises a
\* TypeError at env.HOMELAB_INTELLIGENCE.idFromName, a failing write rejects
\* at the awaited durableObject.fetch.
storeAttempt(outcome) ==
    CASE outcome = "no_binding" -> Throw(TypeErrorMsg)
      [] outcome = "rejected" -> Throw([msg |-> "Durable Object unavailable", status |-> 0])
      [] OTHER -> JUndef

\* storeAnalysisResults without its try/catch.
storeAnalysisResultsNoCatch(outcome) == storeAttempt(outcome)

\* storeAnalysisResults: what the call returns to its caller; the catch logs
\* and continues.
storeAnalysisResults(outcome) ==
    LET r == storeAttempt(outcome)
    IN  IF IsThrow(r) THEN JUndef ELSE r

(***************************************************************************)
(* Responses.                                                              *)
(***************************************************************************)
analysisComplete(succ, fail, p) ==
    JObj([status |-> JStr("analysis_complete"),
          summary |->
              JObj([total_repositories |-> JNum(Len(repositories)),
                    successful_analyses |-> JNum(Len(succ)),
                    failed_analyses |-> JNum(Len(fail)),
                    detected_duplications |-> JLength(Get(p, "duplications")),
                    optimization_opportunities |-> JLength(Get(p, "optimizations"))]),
          repositories |-> JArr(succ),
          consolidation_plan |-> p,
          failed |-> JArr(fail)])

\* The catch of the fetch handler: whatever a route handler throws becomes
\* a status 500 response carrying the error message.
handlerStatus(result) == IF IsThrow(result) THEN 500 ELSE 200

handlerBody(result) ==
    IF IsThrow(result) THEN JObj([error |-> result.v]) ELSE result

(***************************************************************************)
(* Opportunity selector (pr-generator.js).                                 *)
(***************************************************************************)
\* o?.f
OptGet(o, f) == IF CanRead(o) THEN Get(o, f) ELSE JUndef

\* o?.length
OptLength(o) == IF CanRead(o) THEN JLength(o) ELSE JUndef

Opportunity(type, priority, impact) ==
    [type |-> type, priority |-> priority, impact |-> impact]

\* Array.prototype.slice(0, n)
SliceFromStart(seq, n) == SubSeq(seq, 1, IF Len(seq) < n THEN Len(seq) ELSE n)

\* The five opportunities identifyPROpportunities can push.
SecurityHardening == Opportunity("security-hardening", "high", "security improvement")
DuplicationRemoval == Opportunity("duplication-removal", "medium", "code consolidation")
PerformanceOptimization ==
    Opportunity("performance-optimization", "medium", "performance improvement")
CiEnhancement == Opportunity("ci-enhancement", "low", "workflow automation")
IntelligenceIntegration ==
    Opportunity("intelligence-integration", "high", "AI-native capabilities")

\* The opportunities array of identifyPROpportunities before its return.
opportunitiesOf(repoAnalysis) ==
    (IF GtZero(OptLength(OptGet(Get(repoAnalysis, "security"), "vulnerabilities")))
     THEN << SecurityHardening >> ELSE << >>)
    \o (IF OptGet(Get(repoAnalysis, "architecture"), "duplication_risk") = JStr("high")
        THEN << DuplicationRemoval >> ELSE << >>)
    \o (IF GtZero(OptLength(OptGet(Get(repoAnalysis, "architecture"), "optimizations")))
        THEN << PerformanceOptimization >> ELSE << >>)
    \o << CiEnhancement, IntelligenceIntegration >>

\* identifyPROpportunities returning the whole array.
identifyPROpportunitiesUncapped(repoAnalysis) == opportunitiesOf(repoAnalysis)

\* identifyPROpportunities: opportunities.slice(0, 2)
identifyPROpportunities(repoAnalysis) ==
    SliceFromStart(opportunitiesOf(repoAnalysis), 2)

\* The values a backend may give a list-valued field of a finding.
ListValues ==
    {JUndef, EmptyArr, JArr(<< "x1" >>), JArr(<< "x1", "x2" >>),
     JStr("none found"), JNum(3)}

\* The values a backend may give duplication_risk.
RiskValues == {JUndef, JStr("low"), JStr("medium"), JStr("high")}

\* The security findings analyzeSecurityPosture can produce, and null.
SecurityFindings ==
    {JNull} \cup {securityOf(JObj([vulnerabilities |-> x])) : x \in ListValues}

\* The architecture findings analyzeArchitecture can produce, and null.
ArchitectureFindings ==
    {JNull} \cup
    {architectureOf(JObj([duplication_risk |-> d, optimizations |-> o])) :
        d \in RiskValues, o \in ListValues}

\* The AnalysisResults the selector is applied to.
SelectorInputs ==
    {analysisResult("protohome", RepoData("protohome"),
                    [architecture |-> a, security |-> x, community_context |-> JNull]) :
        a \in ArchitectureFindings, x \in SecurityFindings}

SelectorInit ==
    /\ selPc = "ready"
    /\ selInput = Idle
    /\ selOutput = << >>

\* An AnalysisResult arrives.
SelectorInput(a) ==
    /\ selPc = "ready"
    /\ selInput = Idle
    /\ selInput' = a
    /\ UNCHANGED << selPc, selOutput >>

\* identifyPROpportunities(selInput)
Select ==
    /\ selPc = "ready"
    /\ selInput # Idle
    /\ selOutput' = identifyPROpportunities(selInput)
    /\ selPc' = "selected"
    /\ UNCHANGED selInput

SelectorNext ==
    \/ \E a \in SelectorInputs : SelectorInput(a)
    \/ Select

(***************************************************************************)
(* Change applier (pr-generator.js).                                       *)
(***************************************************************************)
\* The keys of REPOSITORY_CONSTELLATION, in insertion order.
Constellation ==
    << "complete-homelab-orchestrator", "homelab-production",
       "r240-homelab-orchestrator", "protohome", "homelab-deploy", "homeops",
       "homelab-gitops", "homelab-zenith-86" >>

InConstellation(repoName) ==
    \E i \in 1 .. Len(Constellation) : Constellation[i] = repoName

\* `intelligence/optimize-${opportunity.type}-${Date.now()}`
BranchName(type, time) == [type |-> type, time |-> time]

\* The repository's default branch.
MainBranch == [type |-> "main", time |-> 0]

NoOpp == Opportunity("", "", "")
NoBranch == BranchName("", 0)

\* The sha property left out of a request.
NoSha == ""

PathIntelligence == ".github/workflows/intelligence.yml"
PathConfig == ".intelligence/config.json"
PathCi == ".github/workflows/ci-enhanced.yml"
PathSecurity == ".github/workflows/security.yml"

\* The templated content of a generated file: one text per path.
GeneratedContent(path) == [generated |-> path]

\* The blob sha the host gives a content.
ShaOf(content) ==
    CASE content = GeneratedContent(PathIntelligence) -> "sha-intelligence"
      [] content = GeneratedContent(PathConfig) -> "sha-config"
      [] content = GeneratedContent(PathCi) -> "sha-ci"
      [] OTHER -> "sha-security"

File(path) == [path |-> path, content |-> GeneratedContent(path)]

\* generatePRTitle
generatePRTitle(opportunity) ==
    CASE opportunity.type = "security-hardening" -> "Autonomous Security Hardening"
      [] opportunity.type = "duplication-removal" -> "AI-Detected Duplication Consolidation"
      [] opportunity.type = "performance-optimization" ->
            "Performance Optimization via Intelligence Analysis"
      [] opportunity.type = "ci-enhancement" ->
            "Enhanced CI/CD with Intelligence Integration"
      [] opportunity.type = "intelligence-integration" ->
            "Homelab Intelligence Platform Integration"
      [] OTHER -> "Autonomous Optimization"

\* {}
EmptyObj == JObj(<< >>)

\* x.forEach(...) guarded by x?.length > 0: a TypeError unless x is an array.
ForEachThrows(x) == GtZero(OptLength(x)) /\ ~IsArray(x)

\* x?.join(', '): a TypeError when x is there and is not an array.
JoinThrows(x) == CanRead(x) /\ ~IsArray(x)

\* generatePRBody: the body, or the TypeError it throws.
generatePRBody(opportunity, repoAnalysis) ==
    LET analysis == Or(Get(repoAnalysis, "architecture"), EmptyObj)
        security == Or(Get(repoAnalysis, "security"), EmptyObj)
        community == Or(Get(repoAnalysis, "community_context"), EmptyObj)
        switchThrows ==
            CASE opportunity.type = "security-hardening" ->
                    ForEachThrows(Get(security, "recommendations"))
              [] opportunity.type = "duplication-removal" ->
                    \/ JoinThrows(Get(analysis, "patterns"))
                    \/ ForEachThrows(Get(analysis, "optimizations"))
              [] OTHER -> FALSE
    IN  IF switchThrows \/ ForEachThrows(Get(community, "trends"))
        THEN Throw(TypeErrorMsg)
        ELSE JObj([type |-> JStr(opportunity.type),
                   priority |-> JStr(opportunity.priority),
                   impact |-> JStr(opportunity.impact)])

\* generateOptimizationFiles: the files of the opportunity's kind, or the
\* TypeError of reading a property of a missing repoConfig.
generateOptimizationFiles(opportunity, repoName) ==
    CASE opportunity.type = "intelligence-integration" ->
            IF InConstellation(repoName)
            THEN JArr(<< File(PathIntelligence), File(PathConfig) >>)
            ELSE Throw(TypeErrorMsg)
      [] opportunity.type = "ci-enhancement" ->
            IF InConstellation(repoName)
            THEN JArr(<< File(PathCi) >>)
            ELSE Throw(TypeErrorMsg)
      [] opportunity.type = "security-hardening" -> JArr(<< File(PathSecurity) >>)
      [] OTHER -> EmptyArr

\* A lookup result: the status of repos.getContent and, on 200, the sha of
\* the file found.
Lookup(status, sha) == [status |-> status, sha |-> sha]
NoLookup == Lookup(0, NoSha)

\* A createOrUpdateFileContents request.
WriteRequest(message, file, branch, sha) ==
    [t |-> "write",
     v |-> [message |-> message, path |-> file.path, content |-> file.content,
            branch |-> branch, sha |-> sha]]
NoWrite == [t |-> "none", v |-> 0]

\* createOrUpdateFile sending the update without the sha of the file found.
createOrUpdateFileOnLookupNoSha(file, branch, lookup) ==
    IF lookup.status = 200 THEN WriteRequest("Update", file, branch, NoSha)
    ELSE IF lookup.status = 404 THEN WriteRequest("Create", file, branch, NoSha)
    ELSE Throw([msg |-> "HttpError", status |-> lookup.status])

\* createOrUpdateFile once the lookup has come back: the update request
\* with the sha found, the create request of the catch on a 404, or the
\* error rethrown.
createOrUpdateFileOnLookup(file, branch, lookup) ==
    IF lookup.status = 200 THEN WriteRequest("Update", file, branch, lookup.sha)
    ELSE IF lookup.status = 404 THEN WriteRequest("Create", file, branch, NoSha)
    ELSE Throw([msg |-> "HttpError", status |-> lookup.status])

\* createOrUpdateFile once a write has failed: the catch covers the update
\* request of the try as well, so a 404 there leads to the create request;
\* an error of the create request, or any other status, is thrown.
createOrUpdateFileOnWriteError(file, branch, inTry, status) ==
    IF inTry /\ status = 404 THEN WriteRequest("Create", file, branch, NoSha)
    ELSE Throw([msg |-> "HttpError", status |-> status])

(***************************************************************************)
(* The host, as the applier's requests see it.                             *)
(***************************************************************************)
HostFilesAt(repo, branch, path) ==
    {f \in hostFiles : f.repo = repo /\ f.branch = branch /\ f.path = path}

\* repos.getContent
HostLookup(repo, branch, path) ==
    IF HostFilesAt(repo, branch, path) = {} THEN Lookup(404, NoSha)
    ELSE Lookup(200, (CHOOSE f \in HostFilesAt(repo, branch, path) : TRUE).sha)

\* The status the host answers a write with when nothing else fails: a
\* request without sha creates a file that is not there, a request with sha
\* replaces the file that has that sha.
HostWriteStatus(repo, w) ==
    LET existing == HostFilesAt(repo, w.branch, w.path)
    IN  IF w.sha = NoSha
        THEN (IF existing = {} THEN 201 ELSE 422)
        ELSE IF \E f \in existing : f.sha = w.sha THEN 200
        ELSE IF existing = {} THEN 404
        ELSE 409

\* The files after a write the host accepted.
HostWrite(repo, w) ==
    (hostFiles \ HostFilesAt(repo, w.branch, w.path))
    \cup {[repo |-> repo, branch |-> w.branch, path |-> w.path,
           sha |-> ShaOf(w.content)]}

\* The files after git.createRef: the new branch starts at the base commit.
HostBranchOff(repo, base, branch) ==
    hostFiles \cup
    {[repo |-> repo, branch |-> branch, path |-> f.path, sha |-> f.sha] :
        f \in {g \in hostFiles : g.repo = repo /\ g.branch = base}}

\* The repository the applier specification works on.
ApplierRepo == "protohome"

\* What the default branch holds at the start: nothing the applier
\* generates, or a security workflow written by hand and an intelligence
\* workflow from an earlier, merged application.
InitialFileSets ==
    {{},
     {[repo |-> ApplierRepo, branch |-> MainBranch, path |-> PathSecurity,
       sha |-> "sha-by-hand"],
      [repo |-> ApplierRepo, branch |-> MainBranch, path |-> PathIntelligence,
       sha |-> "sha-intelligence"]}}

\* The AnalysisResults the applier is handed: well-formed findings, all
\* findings null, and a community finding whose trends is a string.
ApplierAnalyses ==
    {analysisResult(ApplierRepo, RepoData(ApplierRepo),
                    [architecture |-> a, security |-> x, community_context |-> c]) :
        a \in {JNull}, x \in {JNull},
        c \in {JNull, communityOf(JObj([trends |-> JStr("none found")]))}}

AllOpportunities ==
    {SecurityHardening, DuplicationRemoval, PerformanceOptimization,
     CiEnhancement, IntelligenceIntegration}

ApplierInit ==
    /\ now = 0
    /\ hostRefs = {[repo |-> ApplierRepo, name |-> MainBranch]}
    /\ hostFiles \in InitialFileSets
    /\ hostPRs = << >>
    /\ apPc = "idle"
    /\ apCount = 0
    /\ apRepo = ""
    /\ apOpp = NoOpp
    /\ apBranch = NoBranch
    /\ apFiles = << >>
    /\ apFilePos = 0
    /\ apLookup = NoLookup
    /\ apWrite = NoWrite
    /\ apInTry = FALSE
    /\ apPr = 0
    /\ apLog = << >>
    /\ apResult = Idle

LogEntry(op, path, sha) == [op |-> op, path |-> path, sha |-> sha]

\* generateOptimizationPR returns or throws: nothing of it stays in flight.
Finish(result) ==
    /\ apPc' = "idle"
    /\ apResult' = result
    /\ apFiles' = << >>
    /\ apFilePos' = 0
    /\ apLookup' = NoLookup
    /\ apWrite' = NoWrite
    /\ apInTry' = FALSE
    /\ apPr' = 0

\* Time passes between two applications (Date.now() is read only at the
\* start of one).
Tick ==
    /\ apPc = "idle"
    /\ now < MaxClock
    /\ now' = now + 1
    /\ UNCHANGED << hostVars, apPc, apCount, apRepo, apOpp, apBranch, apFiles,
                    apFilePos, apLookup, apWrite, apInTry, apPr, apLog, apResult >>

\* generateOptimizationPR up to its first await: the branch name, the
\* title, the body and the files are computed outside the try, then
\* getDefaultBranch issues repos.get.
BeginApplication(repoName, opportunity, repoAnalysis) ==
    /\ apPc = "idle"
    /\ apCount' = apCount + 1
    /\ apRepo' = repoName
    /\ apOpp' = opportunity
    /\ apBranch' = BranchName(opportunity.type, now)
    /\ LET prBody == generatePRBody(opportunity, repoAnalysis)
           files == generateOptimizationFiles(opportunity, repoName)
       IN  IF IsThrow(prBody) \/ IsThrow(files)
           THEN /\ Finish(IF IsThrow(prBody) THEN prBody ELSE files)
                /\ apLog' = << >>
           ELSE /\ apPc' = "repos.get"
                /\ apFiles' = files.v
                /\ apLog' = << LogEntry("repos.get", "", NoSha) >>
                /\ apResult' = Idle
                /\ UNCHANGED << apFilePos, apLookup, apWrite, apInTry, apPr >>
    /\ UNCHANGED << now, hostVars >>

\* A generateOptimizationPR call of the applier specification.
StartApplication(repoName, opportunity, repoAnalysis) ==
    /\ apCount < MaxApplications
    /\ BeginApplication(repoName, opportunity, repoAnalysis)

\* repos.get comes back.
ReposGetSettles(ok) ==
    /\ apPc = "repos.get"
    /\ IF ok
       THEN /\ apPc' = "repos.getBranch"
            /\ apLog' = Append(apLog, LogEntry("repos.getBranch", "", NoSha))
            /\ UNCHANGED << apFiles, apFilePos, apLookup, apWrite, apInTry,
                            apPr, apResult >>
       ELSE Finish(JNull) /\ UNCHANGED apLog
    /\ UNCHANGED << now, hostVars, apCount, apRepo, apOpp, apBranch >>

\* repos.getBranch comes back; on success createBranch issues git.createRef.
GetBranchSettles(ok) ==
    /\ apPc = "repos.getBranch"
    /\ IF ok
       THEN /\ apPc' = "git.createRef"
            /\ apLog' = Append(apLog, LogEntry("git.createRef", "", NoSha))
            /\ UNCHANGED << apFiles, apFilePos, apLookup, apWrite, apInTry,
                            apPr, apResult >>
       ELSE Finish(JNull) /\ UNCHANGED apLog
    /\ UNCHANGED << now, hostVars, apCount, apRepo, apOpp, apBranch >>

\* The loop over the files stopping one short: the pull request is created
\* before the last file is written.
NextFileOrPRSkipsLast(pos) ==
    IF pos < Len(apFiles)
    THEN /\ apPc' = "repos.getContent"
         /\ apFilePos' = pos
         /\ apLog' = Append(apLog, LogEntry("repos.getContent", apFiles[pos].path, NoSha))
    ELSE /\ apPc' = "pulls.create"
         /\ apFilePos' = 0
         /\ apLog' = Append(apLog, LogEntry("pulls.create", "", NoSha))

\* The loop over the files at position pos, then the pull request: the next
\* request generateOptimizationPR issues.
NextFileOrPR(pos) ==
    IF pos <= Len(apFiles)
    THEN /\ apPc' = "repos.getContent"
         /\ apFilePos' = pos
         /\ apLog' = Append(apLog, LogEntry("repos.getContent", apFiles[pos].path, NoSha))
    ELSE /\ apPc' = "pulls.create"
         /\ apFilePos' = 0
         /\ apLog' = Append(apLog, LogEntry("pulls.create", "", NoSha))

\* createBranch with its error swallowed: the file loop starts whether or
\* not the branch was created.
CreateRefSettlesIgnoresFailure(ok) ==
    /\ apPc = "git.createRef"
    /\ IF ok /\ [repo |-> apRepo, name |-> apBranch] \notin hostRefs
       THEN /\ hostRefs' = hostRefs \cup {[repo |-> apRepo, name |-> apBranch]}
            /\ hostFiles' = HostBranchOff(apRepo, MainBranch, apBranch)
       ELSE UNCHANGED << hostRefs, hostFiles >>
    /\ NextFileOrPR(1)
    /\ UNCHANGED << apFiles, apLookup, apWrite, apInTry, apPr, apResult >>
    /\ UNCHANGED << now, hostPRs, apCount, apRepo, apOpp, apBranch >>

\* git.createRef comes back: the host refuses a name it already has.
CreateRefSettles(ok) ==
    /\ apPc = "git.createRef"
    /\ IF ok /\ [repo |-> apRepo, name |-> apBranch] \notin hostRefs
       THEN /\ hostRefs' = hostRefs \cup {[repo |-> apRepo, name |-> apBranch]}
            /\ hostFiles' = HostBranchOff(apRepo, MainBranch, apBranch)
            /\ NextFileOrPR(1)
            /\ UNCHANGED << apFiles, apLookup, apWrite, apInTry, apPr, apResult >>
       ELSE /\ Finish(JNull)
            /\ UNCHANGED << hostRefs, hostFiles, apLog >>
    /\ UNCHANGED << now, hostPRs, apCount, apRepo, apOpp, apBranch >>

\* repos.getContent comes back with the host's answer or with a server
\* error: createOrUpdateFile issues its write or throws.
LookupSettles(hostAnswers) ==
    /\ apPc = "repos.getContent"
    /\ LET file == apFiles[apFilePos]
           lookup == IF hostAnswers THEN HostLookup(apRepo, apBranch, file.path)
                     ELSE Lookup(500, NoSha)
           next == createOrUpdateFileOnLookup(file, apBranch, lookup)
       IN  IF IsThrow(next)
           THEN Finish(JNull) /\ UNCHANGED apLog
           ELSE /\ apPc' = "createOrUpdateFileContents"
                /\ apLookup' = lookup
                /\ apWrite' = next
                /\ apInTry' = (lookup.status = 200)
                /\ apLog' = Append(apLog,
                       LogEntry("createOrUpdateFileContents", file.path, next.v.sha))
                /\ UNCHANGED << apFiles, apFilePos, apPr, apResult >>
    /\ UNCHANGED << now, hostVars, apCount, apRepo, apOpp, apBranch >>

\* The statuses a write can fail with whatever the files are: no access to
\* the branch (404) and a conflicting change (409).
WriteFailures == {404, 409}

\* createOrUpdateFileContents comes back with the host's answer (status 0
\* given) or with a failure status.
WriteSettles(failure) ==
    /\ apPc = "createOrUpdateFileContents"
    /\ LET file == apFiles[apFilePos]
           status == IF failure = 0 THEN HostWriteStatus(apRepo, apWrite.v)
                     ELSE failure
       IN  IF status \in {200, 201}
           THEN /\ hostFiles' = HostWrite(apRepo, apWrite.v)
                /\ NextFileOrPR(apFilePos + 1)
                /\ apLookup' = NoLookup
                /\ apWrite' = NoWrite
                /\ apInTry' = FALSE
                /\ UNCHANGED << apFiles, apPr, apResult >>
           ELSE LET next == createOrUpdateFileOnWriteError(file, apBranch, apInTry, status)
                IN  IF IsThrow(next)
                    THEN /\ Finish(JNull)
                         /\ UNCHANGED << hostFiles, apLog >>
                    ELSE /\ apWrite' = next
                         /\ apInTry' = FALSE
                         /\ apLog' = Append(apLog,
                                LogEntry("createOrUpdateFileContents", file.path, next.v.sha))
                         /\ UNCHANGED << hostFiles, apPc, apFiles, apFilePos,
                                         apLookup, apPr, apResult >>
    /\ UNCHANGED << now, hostRefs, hostPRs, apCount, apRepo, apOpp, apBranch >>

\* pulls.create comes back; on success issues.addLabels is issued.
CreatePRSettles(ok) ==
    /\ apPc = "pulls.create"
    /\ IF ok
       THEN /\ hostPRs' = Append(hostPRs,
                   [repo |-> apRepo, number |-> Len(hostPRs) + 1,
                    head |-> apBranch, base |-> MainBranch,
                    title |-> generatePRTitle(apOpp), labels |-> {}])
            /\ apPr' = Len(hostPRs) + 1
            /\ apPc' = "issues.addLabels"
            /\ apLog' = Append(apLog, LogEntry("issues.addLabels", "", NoSha))
            /\ UNCHANGED << apFiles, apFilePos, apLookup, apWrite, apInTry, apResult >>
       ELSE Finish(JNull) /\ UNCHANGED << hostPRs, apLog >>
    /\ UNCHANGED << now, hostRefs, hostFiles, apCount, apRepo, apOpp, apBranch >>

\* The labels generateOptimizationPR attaches.
LabelsOf(opportunity) ==
    {"intelligence", "automation", opportunity.type,
     CASE opportunity.priority = "high" -> "priority-high"
       [] opportunity.priority = "medium" -> "priority-medium"
       [] OTHER -> "priority-low"}

\* issues.addLabels comes back: the PullRequestRecord is returned, or null.
AddLabelsSettles(ok) ==
    /\ apPc = "issues.addLabels"
    /\ IF ok
       THEN /\ hostPRs' = [hostPRs EXCEPT ![apPr].labels = LabelsOf(apOpp)]
            /\ Finish(JObj([number |-> JNum(apPr),
                            title |-> JStr(generatePRTitle(apOpp)),
                            type |-> JStr(apOpp.type)]))
       ELSE Finish(JNull) /\ UNCHANGED hostPRs
    /\ UNCHANGED << now, hostRefs, hostFiles, apCount, apRepo, apOpp, apBranch, apLog >>

ApplierNext ==
    \/ Tick
    \/ \E opportunity \in AllOpportunities, repoAnalysis \in ApplierAnalyses :
          StartApplication(ApplierRepo, opportunity, repoAnalysis)
    \/ \E ok \in BOOLEAN : ReposGetSettles(ok)
    \/ \E ok \in BOOLEAN : GetBranchSettles(ok)
    \/ \E ok \in BOOLEAN : CreateRefSettles(ok)
    \/ \E hostAnswers \in BOOLEAN : LookupSettles(hostAnswers)
    \/ \E failure \in {0} \cup WriteFailures : WriteSettles(failure)
    \/ \E ok \in BOOLEAN : CreatePRSettles(ok)
    \/ \E ok \in BOOLEAN : AddLabelsSettles(ok)

(***************************************************************************)
(* The run over the constellation (generateConstellationOptimizations).    *)
(***************************************************************************)
\* analysisResults.repositories.find(r => r.name === repoName)
FindAnalysis(input, repoName) ==
    IF \E k \in 1 .. Len(input) : Get(input[k], "name") = JStr(repoName)
    THEN input[CHOOSE k \in 1 .. Len(input) :
                  /\ Get(input[k], "name") = JStr(repoName)
                  /\ \A j \in 1 .. (k - 1) : Get(input[j], "name") # JStr(repoName)]
    ELSE JUndef

\* An AnalysisResult with no finding.
BareAnalysis(repoName) ==
    analysisResult(repoName, RepoData(repoName),
                   [architecture |-> JNull, security |-> JNull,
                    community_context |-> JNull])

\* An AnalysisResult whose security finding lists a vulnerability and
\* gives its recommendations as one string.
ProseSecurityAnalysis(repoName) ==
    analysisResult(repoName, RepoData(repoName),
                   [architecture |-> JNull,
                    security |-> securityOf(JObj(
                        [vulnerabilities |-> JArr(<< "open port" >>),
                         recommendations |-> JStr("rotate the keys")])),
                    community_context |-> JNull])

\* The analysisResults.repositories a run is given.
RunInputs ==
    {<< BareAnalysis(ApplierRepo) >>,
     << BareAnalysis("homeops"), ProseSecurityAnalysis(ApplierRepo) >>,
     << BareAnalysis(ApplierRepo), BareAnalysis("homelab-ops") >>}

RunInit ==
    /\ runPc = "idle"
    /\ runCount = 0
    /\ runInput = << >>
    /\ runRepo = 0
    /\ prTypes = << >>
    /\ runPos = 0
    /\ runAwait = FALSE
    /\ prResults = << >>
    /\ remediated = {}
    /\ faults = 0

\* The entries of prResults.
PrEntry(repoName, pr) == [repository |-> repoName, pr |-> pr]
ErrorEntry(repoName, error) == [repository |-> repoName, error |-> error.v]

\* generateConstellationOptimizations is called; every run of a behaviour
\* is given the same analysis results.
RunStart(analysisResults) ==
    /\ runPc \in {"idle", "done"}
    /\ apPc = "idle"
    /\ runCount < MaxRuns
    /\ runCount = 0 \/ analysisResults = runInput
    /\ runCount' = runCount + 1
    /\ runPc' = "running"
    /\ runInput' = analysisResults
    /\ runRepo' = 1
    /\ prTypes' = << >>
    /\ runPos' = 0
    /\ runAwait' = FALSE
    /\ prResults' = << >>
    /\ remediated' = {}
    /\ UNCHANGED << faults, applierVars >>

\* The head of one iteration of the for loop: return after the last entry,
\* continue on a repository without analysis, otherwise select the
\* opportunities and call generateOptimizationPR for the first.
RunIterate ==
    /\ runPc = "running"
    /\ ~runAwait
    /\ IF runRepo > Len(Constellation)
       THEN /\ runPc' = "done"
            /\ UNCHANGED << runRepo, prTypes, runPos, runAwait, remediated,
                            applierVars >>
       ELSE LET repoName == Constellation[runRepo]
                repoAnalysis == FindAnalysis(runInput, repoName)
                types == identifyPROpportunities(repoAnalysis)
            IN  IF ~Truthy(repoAnalysis)
                THEN /\ runRepo' = runRepo + 1
                     /\ UNCHANGED << runPc, prTypes, runPos, runAwait,
                                     remediated, applierVars >>
                ELSE /\ prTypes' = types
                     /\ remediated' = remediated \cup {repoName}
                     /\ runPos' = 1
                     /\ runAwait' = TRUE
                     /\ BeginApplication(repoName, types[1], repoAnalysis)
                     /\ UNCHANGED << runPc, runRepo >>
    /\ UNCHANGED << runCount, runInput, prResults, faults >>

\* The awaited generateOptimizationPR call comes back. A thrown error lands
\* in the catch of the for loop's body, which pushes {repository, error}
\* and leaves the repository; a returned record is pushed, null is not;
\* then the next opportunity of the repository is applied.
RunResume ==
    /\ runPc = "running"
    /\ runAwait
    /\ apPc = "idle"
    /\ LET repoName == Constellation[runRepo]
       IN  IF IsThrow(apResult)
           THEN /\ prResults' = Append(prResults, ErrorEntry(repoName, apResult))
                /\ runRepo' = runRepo + 1
                /\ prTypes' = << >>
                /\ runPos' = 0
                /\ runAwait' = FALSE
                /\ UNCHANGED applierVars
           ELSE /\ prResults' = IF Truthy(apResult)
                                THEN Append(prResults, PrEntry(repoName, apResult))
                                ELSE prResults
                /\ IF runPos < Len(prTypes)
                   THEN /\ runPos' = runPos + 1
                        /\ BeginApplication(repoName, prTypes[runPos + 1],
                                            FindAnalysis(runInput, repoName))
                        /\ UNCHANGED << runRepo, prTypes, runAwait >>
                   ELSE /\ runRepo' = runRepo + 1
                        /\ prTypes' = << >>
                        /\ runPos' = 0
                        /\ runAwait' = FALSE
                        /\ UNCHANGED applierVars
    /\ UNCHANGED << runPc, runCount, runInput, remediated, faults >>

\* A host request of a run comes back: failed from outside (counted) or
\* answered by the host.
Answered(ok) ==
    /\ ~ok => faults < MaxFaults
    /\ faults' = IF ok THEN faults ELSE faults + 1
    /\ UNCHANGED << runPc, runCount, runInput, runRepo, prTypes, runPos,
                    runAwait, prResults, remediated >>

RunNext ==
    \/ \E analysisResults \in RunInputs : RunStart(analysisResults)
    \/ RunIterate
    \/ RunResume
    \/ Tick /\ UNCHANGED runVars
    \/ \E ok \in BOOLEAN : ReposGetSettles(ok) /\ Answered(ok)
    \/ \E ok \in BOOLEAN : GetBranchSettles(ok) /\ Answered(ok)
    \/ \E ok \in BOOLEAN : CreateRefSettles(ok) /\ Answered(ok)
    \/ \E hostAnswers \in BOOLEAN : LookupSettles(hostAnswers) /\ Answered(hostAnswers)
    \/ \E failure \in {0} \cup WriteFailures :
          WriteSettles(failure) /\ Answered(failure = 0)
    \/ \E ok \in BOOLEAN : CreatePRSettles(ok) /\ Answered(ok)
    \/ \E ok \in BOOLEAN : AddLabelsSettles(ok) /\ Answered(ok)

(***************************************************************************)
(* The worker's analyze route.                                             *)
(***************************************************************************)
\* Replies of the host to the metadata request.
MetaReplies == {Reply(200, TRUE, ""), Reply(404, TRUE, ""), Reply(0, FALSE, "")}

\* Replies of a backend to the request of a sub-analysis of one kind.
SubReplies(kind) ==
    CASE kind = "architecture" ->
            {Reply(500, FALSE, ""), Reply(200, TRUE, TextFindings),
             Reply(200, TRUE, TextNull)}
      [] kind = "security" ->
            {Reply(0, FALSE, ""), Reply(200, TRUE, TextFindings)}
      [] OTHER ->
            {Reply(500, FALSE, ""), Reply(200, TRUE, TextProse)}

\* Replies of the backend to the synthesis request.
PlanReplies ==
    {Reply(500, FALSE, ""), Reply(200, TRUE, TextProse),
     Reply(200, TRUE, TextPlanPartial), Reply(200, TRUE, TextPlanString)}

WorkerInitStoring(prior) ==
    /\ pc = "idle"
    /\ meta = [i \in RepoIdx |-> Idle]
    /\ sub = [i \in RepoIdx |-> [k \in KindSet |-> Idle]]
    /\ subReply = [i \in RepoIdx |-> [k \in KindSet |-> Idle]]
    /\ successful = << >>
    /\ failed = << >>
    /\ backendRequests = 0
    /\ synthPrompts = << >>
    /\ plan = Idle
    /\ stored = prior
    /\ storeWrite = "none"
    /\ respStatus = 0
    /\ respBody = JUndef
    /\ reqMethod = ""
    /\ reqPath = ""

\* The worker with an empty result store.
WorkerInit == WorkerInitStoring(<< >>)

\* The start of the run with the community research, which needs only the
\* repository's name, requested alongside the metadata.
StartAnalyzeEagerCommunity ==
    /\ pc = "idle"
    /\ pc' = "fanout"
    /\ meta' = [i \in RepoIdx |-> Pending]
    /\ sub' = [i \in RepoIdx |->
                 [k \in KindSet |->
                     IF k = "community_context" THEN Pending ELSE Idle]]
    /\ backendRequests' = backendRequests + Len(repositories)
    /\ UNCHANGED << subReply, successful, failed,
                    synthPrompts, plan, stored, storeWrite, respStatus,
                    respBody >>

\* fetch, case '/analyze', up to the await of Promise.allSettled: every
\* analyzeRepository is called and has issued its metadata request.
StartAnalyze ==
    /\ pc = "idle"
    /\ pc' = "fanout"
    /\ meta' = [i \in RepoIdx |-> Pending]
    /\ UNCHANGED << sub, subReply, backendRequests, successful, failed,
                    synthPrompts, plan, stored, storeWrite, respStatus,
                    respBody >>

\* The metadata request of entry i comes back.  On success analyzeRepository
\* starts its three sub-analyses, each of which issues its backend request.
MetaSettles(i, reply) ==
    /\ pc = "fanout"
    /\ meta[i] = Pending
    /\ LET outcome == fetchGitHubRepository(repositories[i], reply)
       IN  /\ meta' = [meta EXCEPT ![i] = outcome]
           /\ sub' = IF IsThrow(outcome) THEN sub
                     ELSE [sub EXCEPT ![i] = [k \in KindSet |-> Pending]]
           /\ backendRequests' = IF IsThrow(outcome) THEN backendRequests
                                 ELSE backendRequests + Cardinality(KindSet)
    /\ UNCHANGED << pc, subReply, successful, failed,
                    synthPrompts, plan, stored, storeWrite, respStatus,
                    respBody >>

\* The sub-analyses of one repository sharing a cancellation: a reply that
\* arrives after another sub-analysis of the repository has failed is
\* dropped.
SubSettlesCancelledAfterFailure(i, k, reply) ==
    /\ pc = "fanout"
    /\ sub[i][k] = Pending
    /\ sub' = [sub EXCEPT ![i][k] =
                  IF \E other \in KindSet : sub[i][other] = JNull
                  THEN JNull
                  ELSE SubAnalysis(k, meta[i], reply)]
    /\ subReply' = [subReply EXCEPT ![i][k] = reply]
    /\ UNCHANGED << pc, meta, backendRequests, successful, failed,
                    synthPrompts, plan, stored, storeWrite, respStatus,
                    respBody >>

\* A sub-analysis that tries its backend once more when the first reply is
\* a failure.
SubSettlesRetriesOnce(i, k, reply) ==
    /\ pc = "fanout"
    /\ sub[i][k] = Pending
    /\ subReply' = [subReply EXCEPT ![i][k] = reply]
    /\ IF ~ResponseOk(reply) /\ subReply[i][k] = Idle
       THEN /\ backendRequests' = backendRequests + 1
            /\ UNCHANGED sub
       ELSE /\ sub' = [sub EXCEPT ![i][k] = SubAnalysis(k, meta[i], reply)]
            /\ UNCHANGED backendRequests
    /\ UNCHANGED << pc, meta, successful, failed, synthPrompts, plan, stored,
                    storeWrite, respStatus, respBody >>

\* The backend request of one sub-analysis of entry i comes back.
SubSettles(i, k, reply) ==
    /\ pc = "fanout"
    /\ sub[i][k] = Pending
    /\ sub' = [sub EXCEPT ![i][k] = SubAnalysis(k, meta[i], reply)]
    /\ subReply' = [subReply EXCEPT ![i][k] = reply]
    /\ UNCHANGED << pc, meta, backendRequests, successful, failed,
                    synthPrompts, plan, stored, storeWrite, respStatus,
                    respBody >>

\* The join of Promise.all: the first rejection ends the wait.
AnyRejectedOrAllSettled ==
    \/ \E i \in RepoIdx : IsThrow(meta[i])
    \/ \A i \in RepoIdx : RepoSettled(i)

\* The join of Promise.allSettled over the fleet: every analyzeRepository
\* has settled, fulfilled or rejected.
AllSettled == \A i \in RepoIdx : RepoSettled(i)

\* The join with the synthesis skipped for an empty `successful`: the
\* empty plan is taken without a request.
JoinSkipsEmptySynthesis ==
    /\ pc = "fanout"
    /\ AllSettled
    /\ successful' = successfulOf(analyses)
    /\ failed' = failedOf(analyses)
    /\ IF PlanPromptThrows(successfulOf(analyses))
       THEN /\ pc' = "done"
            /\ respStatus' = handlerStatus(Throw(TypeErrorMsg))
            /\ respBody' = handlerBody(Throw(TypeErrorMsg))
            /\ UNCHANGED << synthPrompts, plan >>
       ELSE IF successfulOf(analyses) = << >>
       THEN /\ pc' = "store"
            /\ plan' = EmptyPlan
            /\ UNCHANGED << synthPrompts, respStatus, respBody >>
       ELSE /\ pc' = "synth"
            /\ synthPrompts' =
                   Append(synthPrompts, planPromptOf(successfulOf(analyses)))
            /\ UNCHANGED << plan, respStatus, respBody >>
    /\ UNCHANGED << meta, sub, subReply, backendRequests, stored, storeWrite >>

\* Promise.allSettled resolves: the partition is computed and
\* generateConsolidationPlan is called; it builds its prompt and issues the
\* synthesis request, or throws out of the route handler.
Join ==
    /\ pc = "fanout"
    /\ AllSettled
    /\ successful' = successfulOf(analyses)
    /\ failed' = failedOf(analyses)
    /\ IF PlanPromptThrows(successfulOf(analyses))
       THEN /\ pc' = "done"
            /\ respStatus' = handlerStatus(Throw(TypeErrorMsg))
            /\ respBody' = handlerBody(Throw(TypeErrorMsg))
            /\ UNCHANGED synthPrompts
       ELSE /\ pc' = "synth"
            /\ synthPrompts' =
                   Append(synthPrompts, planPromptOf(successfulOf(analyses)))
            /\ UNCHANGED << respStatus, respBody >>
    /\ UNCHANGED << meta, sub, subReply, backendRequests, plan, stored,
                    storeWrite >>

\* The rest of analyzeRepositoryConstellation once the call before it
\* (generateConsolidationPlan, storeAnalysisResults) has returned or thrown:
\* the response, through the fetch handler's try/catch.
Respond(callResult, p) ==
    LET result == IF IsThrow(callResult) THEN callResult
                  ELSE analysisComplete(successful, failed, p)
    IN  /\ pc' = "done"
        /\ respStatus' = handlerStatus(result)
        /\ respBody' = handlerBody(result)

\* The synthesis request comes back: the plan is built and
\* storeAnalysisResults is called.  Without the store binding the call ends
\* at once; with it the store write is issued.
SynthSettles(reply, bound) ==
    /\ pc = "synth"
    /\ LET p == generateConsolidationPlan(successful, reply)
       IN  /\ plan' = p
           /\ IF IsThrow(p)
              THEN /\ Respond(p, p)
                   /\ UNCHANGED storeWrite
              ELSE IF bound
              THEN /\ pc' = "store"
                   /\ UNCHANGED << storeWrite, respStatus, respBody >>
              ELSE /\ storeWrite' = "no_binding"
                   /\ Respond(storeAnalysisResults("no_binding"), p)
    /\ UNCHANGED << meta, sub, subReply, backendRequests, successful, failed,
                    synthPrompts, stored >>

\* The store write comes back, written or rejected.
StoreSettles(outcome) ==
    /\ pc = "store"
    /\ storeWrite = "none"
    /\ storeWrite' = outcome
    /\ stored' = IF outcome = "written"
                 THEN Append(stored, storePayload(successful, failed, plan))
                 ELSE stored
    /\ Respond(storeAnalysisResults(outcome), plan)
    /\ UNCHANGED << meta, sub, subReply, backendRequests, successful, failed,
                    synthPrompts, plan >>

\* The steps of the analyze route after its start.
WorkerSteps ==
    \/ \E i \in RepoIdx, reply \in MetaReplies : MetaSettles(i, reply)
    \/ \E i \in RepoIdx, k \in KindSet :
          \E reply \in SubReplies(k) : SubSettles(i, k, reply)
    \/ Join
    \/ \E reply \in PlanReplies, bound \in BOOLEAN : SynthSettles(reply, bound)
    \/ \E outcome \in {"written", "rejected"} : StoreSettles(outcome)

WorkerNext == (StartAnalyze \/ WorkerSteps) /\ UNCHANGED requestVars

(***************************************************************************)
(* The fetch handler's routing.                                            *)
(***************************************************************************)
Methods == {"GET", "POST", "OPTIONS"}

Paths ==
    {"/analyze", "/optimize", "/community", "/health", "/", "/remediate",
     "/webhook"}

\* The switch falling through to the analyze route on an unknown path.
routeOfDefaultAnalyze(method, path) ==
    IF method = "OPTIONS" THEN "preflight"
    ELSE CASE path = "/optimize" -> "optimize"
           [] path = "/community" -> "community"
           [] path = "/health" -> "health"
           [] OTHER -> "analyze"

\* Which branch of fetch answers a request: the OPTIONS test comes before
\* the switch on url.pathname.
routeOf(method, path) ==
    IF method = "OPTIONS" THEN "preflight"
    ELSE CASE path = "/analyze" -> "analyze"
           [] path = "/optimize" -> "optimize"
           [] path = "/community" -> "community"
           [] path = "/health" -> "health"
           [] OTHER -> "notFound"

\* A Response returned without any await.
Answer(status, body) ==
    /\ pc' = "done"
    /\ respStatus' = status
    /\ respBody' = body
    /\ UNCHANGED << meta, sub, subReply, backendRequests, successful, failed,
                    synthPrompts, plan, stored, storeWrite >>

\* The bodies of the responses that are built in place.
OptimizeBody ==
    JObj([status |-> JStr("optimization_generation"),
          message |-> JStr("Optimization generation will be implemented in next message")])
CommunityBody ==
    JObj([status |-> JStr("pattern_mining"),
          message |-> JStr("Community pattern mining will be implemented in next message")])
HealthBody == JObj([status |-> JStr("operational")])
NotFoundBody == JObj([error |-> JStr("Route not found")])

\* fetch(request, env, ctx) up to its first await or its return.
Fetch(method, path) ==
    /\ pc = "idle"
    /\ reqMethod' = method
    /\ reqPath' = path
    /\ LET route == routeOf(method, path)
       IN  CASE route = "preflight" -> Answer(200, JNull)
             [] route = "analyze" -> StartAnalyze
             [] route = "optimize" -> Answer(200, OptimizeBody)
             [] route = "community" -> Answer(200, CommunityBody)
             [] route = "health" -> Answer(200, HealthBody)
             [] OTHER -> Answer(404, NotFoundBody)

\* The result store as an earlier analysis left it: empty, or holding the
\* results of one run that analysed the first repository.
PriorStores ==
    {<< >>,
     << storePayload(<< BareAnalysis(repositories[1]) >>, << >>, EmptyPlan) >>}

RouterNext ==
    \/ \E method \in Methods, path \in Paths : Fetch(method, path)
    \/ WorkerSteps /\ UNCHANGED requestVars

(***************************************************************************)
(* A service adapter called on its own.                                    *)
(***************************************************************************)
AdapterServices == {"g4f", "perplexity"}

\* The replies a backend may give: no response at all (status 0), success
\* and failure statuses, with or without choices[0].message, with JSON and
\* other text as message content.
AdapterReplies ==
    {Reply(status, envelope, content) :
        status \in {0, 200, 201, 204, 400, 401, 404, 429, 500, 503},
        envelope \in BOOLEAN,
        content \in {"", TextProse, TextNull, TextFindings, TextPlanPartial}}

AdapterInit ==
    /\ adPc = "idle"
    /\ adService = ""
    /\ adReply = Idle
    /\ adResult = Idle

\* The adapter is called and awaits its fetch.
AdapterCall(service) ==
    /\ adPc = "idle"
    /\ adPc' = "awaiting"
    /\ adService' = service
    /\ UNCHANGED << adReply, adResult >>

\* The fetch comes back and the adapter returns or throws.
AdapterSettles(reply) ==
    /\ adPc = "awaiting"
    /\ adPc' = "returned"
    /\ adReply' = reply
    /\ adResult' = IF adService = "g4f" THEN callG4FAPI(reply)
                   ELSE callPerplexityAPI(reply)
    /\ UNCHANGED adService

AdapterNext ==
    \/ \E service \in AdapterServices : AdapterCall(service)
    \/ \E reply \in AdapterReplies : AdapterSettles(reply)

\* The metadata request of entry i never comes back: fetch() has no signal
\* and no timer races it.
MetaHangs(i) ==
    /\ pc = "fanout"
    /\ meta[i] = Pending
    /\ meta' = [meta EXCEPT ![i] = Hung]
    /\ UNCHANGED << pc, sub, subReply, backendRequests, successful, failed,
                    synthPrompts, plan, stored, storeWrite, respStatus,
                    respBody >>

\* The backend request of one sub-analysis of entry i never comes back.
SubHangs(i, k) ==
    /\ pc = "fanout"
    /\ sub[i][k] = Pending
    /\ sub' = [sub EXCEPT ![i][k] = Hung]
    /\ UNCHANGED << pc, meta, subReply, backendRequests, successful, failed,
                    synthPrompts, plan, stored, storeWrite, respStatus,
                    respBody >>

\* The store write never comes back: storeAnalysisResults stays at its
\* await of durableObject.fetch, and the route at its await of
\* storeAnalysisResults.
StoreHangs ==
    /\ pc = "store"
    /\ storeWrite = "none"
    /\ storeWrite' = "hung"
    /\ UNCHANGED << pc, meta, sub, subReply, backendRequests, successful,
                    failed, synthPrompts, plan, stored, respStatus,
                    respBody >>

\* Some call of the fan-out will never come back.
SomeCallHung ==
    \E i \in RepoIdx : meta[i] = Hung \/ \E k \in KindSet : sub[i][k] = Hung

\* The analyze route with one external call of the fan-out that may never
\* come back.
HangNext ==
    \/ WorkerNext
    \/ \E i \in RepoIdx : ~SomeCallHung /\ MetaHangs(i) /\ UNCHANGED requestVars
    \/ \E i \in RepoIdx, k \in KindSet :
          ~SomeCallHung /\ SubHangs(i, k) /\ UNCHANGED requestVars
    \/ ~SomeCallHung /\ StoreHangs /\ UNCHANGED requestVars

vars ==
    << workerVars, requestVars, selectorVars, applierVars, runVars, adapterVars >>

\* The worker handling an analyze request.
Init == WorkerInit /\ SelectorInit /\ ApplierInit /\ RunInit /\ AdapterInit

Next == WorkerNext /\ UNCHANGED << selectorVars, applierVars, runVars, adapterVars >>

Spec == Init /\ [][Next]_vars

\* The opportunity selector applied to one AnalysisResult.
NextSelector ==
    SelectorNext
    /\ UNCHANGED << workerVars, requestVars, applierVars, runVars, adapterVars >>

SpecSelector == Init /\ [][NextSelector]_vars

\* The change applier: generateOptimizationPR called on one repository.
NextApplier ==
    ApplierNext
    /\ UNCHANGED << workerVars, requestVars, selectorVars, runVars, adapterVars >>

SpecApplier == Init /\ [][NextApplier]_vars

\* The worker handling an analyze request while a call may hang.
NextHang ==
    HangNext /\ UNCHANGED << selectorVars, applierVars, runVars, adapterVars >>

SpecHang == Init /\ [][NextHang]_vars

\* Runs of generateConstellationOptimizations over the constellation.
NextRun ==
    RunNext /\ UNCHANGED << workerVars, requestVars, selectorVars, adapterVars >>

\* A service adapter called once.
NextAdapter ==
    AdapterNext
    /\ UNCHANGED << workerVars, requestVars, selectorVars, applierVars, runVars >>

SpecAdapter == Init /\ [][NextAdapter]_vars

\* The worker given one request, its result store empty or filled by an
\* earlier analysis.
InitRouter ==
    /\ \E prior \in PriorStores : WorkerInitStoring(prior)
    /\ SelectorInit
    /\ ApplierInit
    /\ hostFiles = {}
    /\ RunInit
    /\ AdapterInit

NextRouter ==
    RouterNext /\ UNCHANGED << selectorVars, applierVars, runVars, adapterVars >>

SpecRouter == InitRouter /\ [][NextRouter]_vars

SpecRun == Init /\ [][NextRun]_vars

(***************************************************************************)
(* Properties of the analyze route.                                        *)
(***************************************************************************)
\* The partition has been computed.
PostJoin == pc \in {"synth", "store", "done"}

\* The repository an AnalysisResult is about.
NameOf(result) == result.v.name.v

SuccessfulNames == {NameOf(successful[j]) : j \in 1 .. Len(successful)}

\* The positions of `successful` that hold the AnalysisResult of entry i.
SuccessfulAt(i) ==
    {j \in 1 .. Len(successful) : NameOf(successful[j]) = repositories[i]}

MetaFailed(i) == IsThrow(meta[i])
MetaSucceeded(i) == IsSettled(meta[i]) /\ ~IsThrow(meta[i])

\* C1: every entry of `failed` names a repository whose analysis was
\* rejected, with that repository's own error message, and no repository
\* named in `failed` has an AnalysisResult in `successful`.
C1_FailedNamesTheRejected ==
    PostJoin =>
        \A j \in 1 .. Len(failed) :
            /\ \E i \in RepoIdx :
                  /\ repositories[i] = failed[j].repository
                  /\ MetaFailed(i)
                  /\ failed[j].error = meta[i].v
            /\ failed[j].repository \notin SuccessfulNames

\* C2: in every analyze run the successful analyses and the failed entries
\* add up to the number of repositories of the fleet, which is the
\* total_repositories the response reports.
C2_PartitionCount ==
    /\ PostJoin => Len(successful) + Len(failed) = Len(repositories)
    /\ respStatus = 200 =>
          /\ Len(respBody.v.repositories.v) + Len(respBody.v.failed.v)
                = Len(repositories)
          /\ respBody.v.summary.v.total_repositories = JNum(Len(repositories))
          /\ respBody.v.summary.v.successful_analyses.v
                + respBody.v.summary.v.failed_analyses.v
                = respBody.v.summary.v.total_repositories.v

\* C2's case: a response after a run in which some repositories failed,
\* some succeeded with failed sub-analyses, and the store write was rejected.
C2_Witness ==
    /\ pc = "done"
    /\ respStatus = 200
    /\ Len(failed) >= 1
    /\ \E j \in 1 .. Len(successful) : successful[j].v.security = JNull
    /\ storeWrite = "rejected"

\* C3: a repository has exactly one AnalysisResult in `successful` when its
\* metadata fetch succeeded and none when it failed, whatever its
\* sub-analyses did.
C3_ResultIffMetadata ==
    PostJoin =>
        \A i \in RepoIdx :
            Cardinality(SuccessfulAt(i)) = IF MetaSucceeded(i) THEN 1 ELSE 0

\* C3's case: a repository all three of whose sub-analyses failed is in
\* `successful`.
C3_Witness ==
    /\ pc = "done"
    /\ \E i \in RepoIdx :
          /\ MetaSucceeded(i)
          /\ \A k \in KindSet : sub[i][k] = JNull
          /\ SuccessfulAt(i) # {}

\* The backend answered the request with a usable record: HTTP success, a
\* message in the body, and a content other than JSON null.
BackendSucceeded(reply) ==
    /\ reply.status \in 200 .. 299
    /\ reply.envelope
    /\ reply.content # "null"

\* C4 (states): each finding of an AnalysisResult is what the repository's
\* own sub-analysis of that kind settled to, and is non-null exactly when
\* that sub-analysis' own backend call succeeded.
C4_OwnFindingOnly ==
    PostJoin =>
        \A i \in RepoIdx :
            MetaSucceeded(i) =>
                \E j \in SuccessfulAt(i) :
                    \A k \in KindSet :
                        /\ successful[j].v[k] = sub[i][k]
                        /\ (successful[j].v[k] # JNull
                               <=> BackendSucceeded(subReply[i][k]))

\* C4 (steps): the settling of one sub-analysis changes that finding alone:
\* no other finding of the repository or of any other repository, and no
\* metadata.
C4_SettlesOneFinding ==
    \A i \in RepoIdx, k \in KindSet :
        (sub[i][k] = Pending /\ sub'[i][k] # Pending) =>
            /\ meta' = meta
            /\ \A i2 \in RepoIdx, k2 \in KindSet :
                  (i2 # i \/ k2 # k) =>
                      /\ sub'[i2][k2] = sub[i2][k2]
                      /\ subReply'[i2][k2] = subReply[i2][k2]

\* C4: the failure of one sub-analysis yields a null finding for that kind
\* only; every other finding, of this and of every other repository, depends
\* on its own backend call alone.
C4_SubAnalysisIsolation ==
    /\ [](C4_OwnFindingOnly)
    /\ [][C4_SettlesOneFinding]_vars

\* C4's case: the community call of a repository failed with HTTP 500 and
\* its architecture and security findings are in the AnalysisResult.
C4_Witness ==
    /\ pc = "done"
    /\ \E i \in RepoIdx :
          /\ MetaSucceeded(i)
          /\ subReply[i]["community_context"].status = 500
          /\ \E j \in SuccessfulAt(i) :
                /\ successful[j].v.community_context = JNull
                /\ successful[j].v.architecture # JNull
                /\ successful[j].v.security # JNull

\* C5 (steps): a metadata fetch failing leaves the run waiting for the
\* others, and leaves every other repository's calls as they are.
C5_FailureCancelsNothing ==
    \A i \in RepoIdx :
        (meta[i] = Pending /\ IsThrow(meta'[i])) =>
            /\ pc' = "fanout"
            /\ \A j \in RepoIdx \ {i} :
                  meta'[j] = meta[j] /\ sub'[j] = sub[j]

\* C5 (states): once the partition exists, every repository whose metadata
\* fetch succeeded has had its three sub-analyses settle and is in
\* `successful`, whatever happened to the others.
C5_OthersComplete ==
    PostJoin =>
        \A j \in RepoIdx :
            /\ IsSettled(meta[j])
            /\ MetaSucceeded(j) =>
                  /\ \A k \in KindSet : IsSettled(sub[j][k])
                  /\ SuccessfulAt(j) # {}

\* C5: the fleet fan-out is all-settled: one repository's metadata failure
\* cancels no other analysis, and every other repository whose metadata
\* fetch succeeds ends in `successful` after its sub-analyses have settled.
C5_AllSettled ==
    /\ [](C5_OthersComplete)
    /\ [][C5_FailureCancelsNothing]_vars

\* C5's case: the first repository's metadata fetch failed and a later
\* repository is in `successful`.
C5_Witness ==
    /\ pc = "done"
    /\ MetaFailed(1)
    /\ \E j \in RepoIdx \ {1} : MetaSucceeded(j) /\ SuccessfulAt(j) # {}

\* C6: the analyze route always ends in the analysis_complete response with
\* the successes, the failures and the plan, never in the status 500
\* response.
C6_NeverErrorShaped ==
    pc = "done" =>
        /\ respStatus = 200
        /\ respBody.t = "obj"
        /\ {"repositories", "failed", "consolidation_plan", "summary"}
              \subseteq DOMAIN respBody.v
        /\ respBody.v.status = JStr("analysis_complete")
        /\ IsArray(respBody.v.repositories)
        /\ IsArray(respBody.v.failed)

\* C6's case: metadata failures, a failed sub-analysis, a failed synthesis
\* call and a failed store write in one run.
C6_Witness ==
    /\ pc = "done"
    /\ respStatus = 200
    /\ Len(failed) >= 1
    /\ \E i \in RepoIdx : MetaSucceeded(i) /\ sub[i]["architecture"] = JNull
    /\ plan = EmptyPlan
    /\ storeWrite \in {"rejected", "no_binding"}

\* C7: every field of the consolidation plan is present and is a sequence.
C7_PlanFieldsAreSequences ==
    (plan # Idle /\ ~IsThrow(plan)) =>
        \A f \in PlanFields : f \in DOMAIN plan.v /\ IsArray(plan.v[f])

\* C8: whatever the store write did, the response is the successful one
\* and carries the partition, the plan and the counts of the run.
C8_StoreFailureNotSurfaced ==
    pc = "done" =>
        /\ respStatus = 200
        /\ respBody.v.repositories = JArr(successful)
        /\ respBody.v.failed = JArr(failed)
        /\ respBody.v.consolidation_plan = plan
        /\ respBody.v.summary.v.successful_analyses = JNum(Len(successful))
        /\ respBody.v.summary.v.failed_analyses = JNum(Len(failed))
        /\ respBody.v.summary.v.total_repositories = JNum(Len(repositories))

\* C8's case: a response after the store write was rejected.
C8_Witness ==
    /\ pc = "done"
    /\ storeWrite = "rejected"
    /\ Len(successful) >= 1
    /\ stored = << >>

(***************************************************************************)
(* Properties of the opportunity selector.                                 *)
(***************************************************************************)
\* A sequence or a string with at least one element.
HasElements(x) ==
    \/ x.t = "arr" /\ x.v # << >>
    \/ x.t = "str" /\ x.v # ""

\* The three conditions of rules 1-3 on the selector's input; a null
\* finding satisfies none.
VulnerabilitiesFound ==
    /\ selInput.v.security # JNull
    /\ HasElements(selInput.v.security.v.vulnerabilities)

DuplicationRiskHigh ==
    /\ selInput.v.architecture # JNull
    /\ selInput.v.architecture.v.duplication_risk = JStr("high")

OptimizationsFound ==
    /\ selInput.v.architecture # JNull
    /\ HasElements(selInput.v.architecture.v.optimizations)

\* The first and the second opportunity of the rule sequence, as a decision
\* table over the three conditions.
ExpectedFirst ==
    IF VulnerabilitiesFound THEN SecurityHardening
    ELSE IF DuplicationRiskHigh THEN DuplicationRemoval
    ELSE IF OptimizationsFound THEN PerformanceOptimization
    ELSE CiEnhancement

ExpectedSecond ==
    IF VulnerabilitiesFound
    THEN (IF DuplicationRiskHigh THEN DuplicationRemoval
          ELSE IF OptimizationsFound THEN PerformanceOptimization
          ELSE CiEnhancement)
    ELSE IF DuplicationRiskHigh
    THEN (IF OptimizationsFound THEN PerformanceOptimization ELSE CiEnhancement)
    ELSE IF OptimizationsFound THEN CiEnhancement
    ELSE IntelligenceIntegration

\* C9: the selector returns exactly the first two opportunities of rules
\* 1-5 in rule order, for every AnalysisResult, null findings included:
\* vulnerabilities with a high duplication risk give security-hardening then
\* duplication-removal, no rule 1-3 firing gives ci-enhancement then
\* intelligence-integration, and there are never more than two.
C9_FirstTwoInRuleOrder ==
    selPc = "selected" =>
        /\ Len(selOutput) = 2
        /\ selOutput = << ExpectedFirst, ExpectedSecond >>
        /\ (VulnerabilitiesFound /\ DuplicationRiskHigh) =>
              selOutput = << SecurityHardening, DuplicationRemoval >>
        /\ (~VulnerabilitiesFound /\ ~DuplicationRiskHigh /\ ~OptimizationsFound) =>
              selOutput = << CiEnhancement, IntelligenceIntegration >>

\* C9's case: the selector has run on a result with vulnerabilities, a high
\* duplication risk and optimizations, so that three matching rules were cut.
C9_Witness ==
    /\ selPc = "selected"
    /\ VulnerabilitiesFound
    /\ DuplicationRiskHigh
    /\ OptimizationsFound
    /\ selOutput = << SecurityHardening, DuplicationRemoval >>

(***************************************************************************)
(* C10: when the change applier writes a generated file, a lookup of the   *)
(* path on the new branch that comes back not-found is followed by a       *)
(* create write carrying no sha, and a lookup that comes back with an      *)
(* existing file is followed by an update write carrying exactly the sha   *)
(* the lookup returned.                                                    *)
(***************************************************************************)
C10_WriteAfterLookup ==
    (apPc = "repos.getContent" /\ apPc' = "createOrUpdateFileContents") =>
        LET file == apFiles[apFilePos]
            answer == HostLookup(apRepo, apBranch, file.path)
        IN  /\ apWrite'.t = "write"
            /\ apWrite'.v.path = file.path
            /\ apWrite'.v.branch = apBranch
            /\ answer.status = 404 =>
                  apWrite'.v.message = "Create" /\ apWrite'.v.sha = NoSha
            /\ answer.status = 200 =>
                  /\ apWrite'.v.message = "Update"
                  /\ apWrite'.v.sha = answer.sha
                  /\ apWrite'.v.sha # NoSha

C10_WriteCarriesLookupSha == [][C10_WriteAfterLookup]_vars

\* An update write is in flight for a file the lookup found on the new
\* branch, written by hand before the applier came.
C10_Witness ==
    /\ apPc = "createOrUpdateFileContents"
    /\ apInTry
    /\ apLookup = Lookup(200, "sha-by-hand")
    /\ apWrite.t = "write"
    /\ apWrite.v.message = "Update"
    /\ apWrite.v.path = PathSecurity
    /\ apWrite.v.branch = apBranch
    /\ apBranch # MainBranch

(***************************************************************************)
(* C11: applying the same opportunity to the same repository twice leaves  *)
(* one file at each generated path: the second application takes the      *)
(* update path on the file the first application created.                  *)
(***************************************************************************)
\* An earlier application of the same kind to the same repository has
\* written the path on its branch.
WrittenByEarlierApplication(repo, opportunity, branch, path) ==
    \E f \in hostFiles :
        /\ f.repo = repo
        /\ f.path = path
        /\ f.branch # MainBranch
        /\ f.branch # branch
        /\ f.branch.type = opportunity.type
        /\ f.sha = ShaOf(GeneratedContent(path))

\* The applier branches of one kind on which the repository holds the
\* generated file of the path, given the host's files.
BranchesHolding(files, repo, type, path) ==
    {f.branch : f \in {g \in files :
        /\ g.repo = repo
        /\ g.path = path
        /\ g.branch # MainBranch
        /\ g.branch.type = type
        /\ g.sha = ShaOf(GeneratedContent(path))}}

C11_SecondWriteIsUpdate ==
    (/\ apPc = "repos.getContent"
     /\ apPc' = "createOrUpdateFileContents"
     /\ WrittenByEarlierApplication(apRepo, apOpp, apBranch, apFiles[apFilePos].path))
    => apWrite'.v.message = "Update"

C11_WriteKeepsOneFile ==
    LET path == apFiles[apFilePos].path
    IN  (apPc = "createOrUpdateFileContents" /\ hostFiles' # hostFiles)
        => Cardinality(BranchesHolding(hostFiles', apRepo, apOpp.type, path)) = 1

C11_SecondApplicationUpdates ==
    [][C11_SecondWriteIsUpdate /\ C11_WriteKeepsOneFile]_vars

(***************************************************************************)
(* C12: creating remediation branches and pull requests is idempotent:     *)
(* running the remediation over the same analysis results twice leaves the *)
(* host with the same remediation branches and pull requests per           *)
(* (repository, opportunity kind) as running it once, so the host never    *)
(* holds two branches or two pull requests of one kind for one repository. *)
(***************************************************************************)
RemediationBranches(repo, type) ==
    {r \in hostRefs : r.repo = repo /\ r.name # MainBranch /\ r.name.type = type}

RemediationPRs(repo, type) ==
    {k \in 1 .. Len(hostPRs) : hostPRs[k].repo = repo /\ hostPRs[k].head.type = type}

\* Stated for the runs in which no host request failed from outside.
C12_OneBranchAndPRPerKind ==
    faults = 0 =>
    \A k \in 1 .. Len(Constellation), opportunity \in AllOpportunities :
        /\ Cardinality(RemediationBranches(Constellation[k], opportunity.type)) <= 1
        /\ Cardinality(RemediationPRs(Constellation[k], opportunity.type)) <= 1

(***************************************************************************)
(* C13: whenever a change application fails in default-branch resolution,  *)
(* branch creation, pull-request creation or label attachment, the run's   *)
(* result list holds an entry {repository, error} for it: a failed         *)
(* application is never silently absent from the results.                  *)
(***************************************************************************)
\* The awaited application has come back and the run takes its result.
TakesResult ==
    /\ runPc = "running"
    /\ runAwait
    /\ apPc = "idle"
    /\ << runRepo, runPos >>' # << runRepo, runPos >>

\* The request the application issued last.
LastRequest == IF apLog = << >> THEN "" ELSE apLog[Len(apLog)].op

\* The application failed in one of the four steps.
FailedInReportedStep ==
    /\ apResult = JNull
    /\ LastRequest \in {"repos.get", "repos.getBranch", "git.createRef",
                        "pulls.create", "issues.addLabels"}

HasErrorEntry(results, repoName) ==
    \E k \in 1 .. Len(results) :
        /\ results[k].repository = repoName
        /\ "error" \in DOMAIN results[k]

C13_FailureIsReported ==
    [][(TakesResult /\ FailedInReportedStep) => HasErrorEntry(prResults', apRepo)]_vars

(***************************************************************************)
(* C14: a failure while applying one (repository, opportunity) pair never  *)
(* prevents another pair of the run from being attempted: when an          *)
(* application comes back, failed or not, the next opportunity of the same *)
(* repository is applied, and after the last one the run goes on to the    *)
(* next repository.                                                        *)
(***************************************************************************)
C14_NextPairAttempted ==
    TakesResult =>
        IF runPos < Len(prTypes)
        THEN /\ runRepo' = runRepo
             /\ runPos' = runPos + 1
             /\ apCount' = apCount + 1
             /\ apRepo' = apRepo
             /\ apOpp' = prTypes[runPos + 1]
        ELSE /\ runRepo' = runRepo + 1
             /\ runPc' = "running"

C14_FailureSkipsNoPair == [][C14_NextPairAttempted]_vars

(***************************************************************************)
(* C15: every external call is bounded by a timeout, so the analyze run    *)
(* returns a response even if one call never completes: with a call hung,  *)
(* the run has either responded or can still take a step (a timer firing,  *)
(* a reply arriving, the join resolving).                                  *)
(***************************************************************************)
C15_HungCallCannotStall ==
    SomeCallHung => (pc = "done" \/ ENABLED WorkerNext)

(***************************************************************************)
(* C16: whenever a backend answers with HTTP success the service adapter   *)
(* returns a result: content that is not structured data, or an envelope   *)
(* without the message content, comes back as a single-field raw-text      *)
(* fallback record.  The adapter fails only on a non-2xx response.         *)
(***************************************************************************)
\* A record of one field holding text.
IsRawTextFallback(x) ==
    /\ x.t = "obj"
    /\ Cardinality(DOMAIN x.v) = 1
    /\ \A f \in DOMAIN x.v : x.v[f].t = "str"

C16_SuccessNeverFails ==
    (adPc = "returned" /\ ResponseOk(adReply)) =>
        /\ ~IsThrow(adResult)
        /\ (~adReply.envelope \/ IsThrow(JSONparse(adReply.content)))
              => IsRawTextFallback(adResult)

(***************************************************************************)
(* C17: a request to the optimize route runs the opportunity selector and  *)
(* the change applier across the fleet using a prior analysis: once it has *)
(* completed, the applier has been invoked for each selected opportunity   *)
(* of each repository with a prior AnalysisResult.                         *)
(***************************************************************************)
\* The AnalysisResults of the latest stored analysis.
PriorAnalyses ==
    IF stored = << >> THEN << >>
    ELSE Get(stored[Len(stored)], "repositories").v

C17_OptimizeAppliesOpportunities ==
    (/\ pc = "done"
     /\ reqMethod # "OPTIONS"
     /\ reqPath = "/optimize")
    => \A k \in 1 .. Len(PriorAnalyses) :
          /\ runCount >= 1
          /\ apCount >= Len(identifyPROpportunities(PriorAnalyses[k]))

(***************************************************************************)
(* C18: every request whose path is not one of the defined routes gets a   *)
(* not-found (404) response and that handling makes no host, backend or    *)
(* store call; the health route always answers operational without any     *)
(* external call.                                                          *)
(***************************************************************************)
DefinedPaths == {"/analyze", "/optimize", "/community", "/health"}

\* No host, backend or store request has been issued.
NoExternalCall ==
    /\ \A i \in RepoIdx : meta[i] = Idle /\ \A k \in KindSet : sub[i][k] = Idle
    /\ plan = Idle
    /\ storeWrite = "none"
    /\ apCount = 0
    /\ runCount = 0
    /\ adPc = "idle"

\* The request has been handed to fetch.
Received == reqMethod # ""

\* The claim as stated, for every method.
C18_UnknownPathNotFound ==
    /\ (Received /\ reqPath \notin DefinedPaths) =>
          pc = "done" /\ respStatus = 404 /\ NoExternalCall
    /\ (Received /\ reqPath = "/health") =>
          pc = "done" /\ respBody = HealthBody /\ NoExternalCall

\* Amended: the claim holds of every request but OPTIONS, which is answered
\* as a CORS preflight (200, no body, no external call) whatever its path.
C18_UnknownPathNotFoundUnlessPreflight ==
    /\ (Received /\ reqMethod # "OPTIONS" /\ reqPath \notin DefinedPaths) =>
          /\ pc = "done"
          /\ respStatus = 404
          /\ respBody = NotFoundBody
          /\ NoExternalCall
    /\ (Received /\ reqMethod # "OPTIONS" /\ reqPath = "/health") =>
          /\ pc = "done"
          /\ respStatus = 200
          /\ respBody = HealthBody
          /\ NoExternalCall
    /\ (Received /\ reqMethod = "OPTIONS") =>
          /\ pc = "done"
          /\ respStatus = 200
          /\ respBody = JNull
          /\ NoExternalCall

\* A GET of a path the switch does not list has been answered.
C18_Witness ==
    /\ pc = "done"
    /\ reqMethod = "GET"
    /\ reqPath = "/webhook"
    /\ respStatus = 404
    /\ stored # << >>

(***************************************************************************)
(* C19: within one change application the host operations occur in a      *)
(* strict order: the branch is created before any file lookup or write on *)
(* it, every generated file has been written before the pull request is   *)
(* created, labels are attached only after the pull request exists, and   *)
(* no two of these operations are in flight at the same time.              *)
(***************************************************************************)
\* The place of a request in the order of a change application.
StepRank(op) ==
    CASE op = "repos.get" -> 1
      [] op = "repos.getBranch" -> 2
      [] op = "git.createRef" -> 3
      [] op = "repos.getContent" -> 4
      [] op = "createOrUpdateFileContents" -> 4
      [] op = "pulls.create" -> 5
      [] OTHER -> 6

\* The generated file is on the application's branch.
Written(file) ==
    [repo |-> apRepo, branch |-> apBranch, path |-> file.path,
     sha |-> ShaOf(file.content)] \in hostFiles

C19_RequestsInOrder ==
    \A i, j \in 1 .. Len(apLog) :
        i < j => StepRank(apLog[i].op) <= StepRank(apLog[j].op)

C19_EachStepOnThePrevious ==
    /\ apPc \in {"repos.getContent", "createOrUpdateFileContents",
                 "pulls.create", "issues.addLabels"}
          => [repo |-> apRepo, name |-> apBranch] \in hostRefs
    /\ apPc \in {"repos.getContent", "createOrUpdateFileContents"}
          => \A k \in 1 .. (apFilePos - 1) : Written(apFiles[k])
    /\ apPc \in {"pulls.create", "issues.addLabels"}
          => \A k \in 1 .. Len(apFiles) : Written(apFiles[k])
    /\ apPc = "issues.addLabels"
          => /\ apPr \in 1 .. Len(hostPRs)
             /\ hostPRs[apPr].head = apBranch

\* One request at a time: a step issues at most one request, and only as
\* the request in flight comes back.
C19_OneRequestAtATime ==
    /\ Len(apLog') <= Len(apLog) + 1
    /\ (apPc # "idle" /\ apLog' # apLog) =>
          /\ apLog' = Append(apLog, apLog'[Len(apLog')])
          /\ apPc' = apLog'[Len(apLog')].op

C19_StrictOrder ==
    [](C19_RequestsInOrder /\ C19_EachStepOnThePrevious)
    /\ [][C19_OneRequestAtATime]_vars

\* Labels are being attached to the pull request of an application that
\* has written two files.
C19_Witness ==
    /\ apPc = "issues.addLabels"
    /\ Len(apFiles) = 2
    /\ Len(apLog) >= 9
    /\ apPr = 1

(***************************************************************************)
(* C20: a failure in an early step of a change application stops all its   *)
(* later steps without retry: if default-branch resolution fails no branch *)
(* is created; if branch creation fails it was attempted once and no file  *)
(* is written and no pull request opened; if a file lookup or write fails  *)
(* with anything other than not-found, no pull request is opened.          *)
(***************************************************************************)
\* How many requests of the kind the application has issued.
Issued(op) == Cardinality({k \in 1 .. Len(apLog) : apLog[k].op = op})

\* The application ends in failure as the request in flight comes back.
FailsAt(ops) == apPc \in ops /\ apPc' = "idle" /\ apResult' = JNull

C20_FailureEndsTheApplication ==
    /\ (apPc # "idle" /\ apPc' = "idle" /\ apResult' = JNull) =>
          /\ apLog' = apLog
          /\ (apPc # "issues.addLabels" => hostVars' = hostVars)
    /\ FailsAt({"repos.get", "repos.getBranch"}) =>
          /\ Issued("git.createRef") = 0
          /\ hostRefs' = hostRefs
    /\ (apPc = "git.createRef" /\ hostRefs' = hostRefs) =>
          /\ apPc' = "idle"
          /\ apResult' = JNull
          /\ Issued("git.createRef") = 1
          /\ Issued("repos.getContent") = 0
          /\ Issued("createOrUpdateFileContents") = 0
          /\ Issued("pulls.create") = 0
          /\ hostFiles' = hostFiles
          /\ hostPRs' = hostPRs
    /\ FailsAt({"repos.getContent", "createOrUpdateFileContents"}) =>
          /\ Issued("pulls.create") = 0
          /\ hostPRs' = hostPRs
          /\ \A k \in 1 .. Len(hostPRs) :
                ~(hostPRs[k].repo = apRepo /\ hostPRs[k].head = apBranch)

C20_NoRetry ==
    /\ Issued("repos.get") <= 1
    /\ Issued("repos.getBranch") <= 1
    /\ Issued("git.createRef") <= 1
    /\ Issued("pulls.create") <= 1

C20_EarlyFailureStops ==
    [](C20_NoRetry) /\ [][C20_FailureEndsTheApplication]_vars

\* An application has ended in failure at branch creation: the name was
\* taken by an earlier application of the same kind at the same clock
\* reading.
C20_Witness ==
    /\ apPc = "idle"
    /\ apResult = JNull
    /\ apCount = 2
    /\ LastRequest = "git.createRef"
    /\ [repo |-> apRepo, name |-> apBranch] \in hostRefs

\* ---------------------------------------------------------------------
\* C21: a pull request is requested only after at least one file has been
\* written on its branch: the generated file set of the application is not
\* empty and a createOrUpdateFileContents request precedes pulls.create.
C21_PullRequestFollowsWrite ==
    apPc \in {"pulls.create", "issues.addLabels"} =>
        /\ apFiles # << >>
        /\ Issued("createOrUpdateFileContents") >= 1

(***************************************************************************)
(* C22: the store write is fire-and-forget: the analyze response does not  *)
(* wait for it, so with a store write that never completes the run has     *)
(* responded or can still take a step towards its response.                *)
(***************************************************************************)
C22_HungStoreCannotStall ==
    storeWrite = "hung" => (pc = "done" \/ ENABLED WorkerNext)

(***************************************************************************)
(* C23: the analyze response is determined by the outcomes of the external *)
(* calls alone, whatever the order in which the repository analyses and    *)
(* the sub-analyses completed: `successful` (members, order, null          *)
(* findings) and `failed` are what the recorded metadata outcomes and      *)
(* backend replies give when read in fleet order, and the response body    *)
(* is built from them and the plan.                                        *)
(***************************************************************************)
\* The settled analysis of entry i as its call outcomes alone give it.
AnalysisFromOutcomes(i) ==
    analyzeRepository(repositories[i], meta[i],
        [k \in KindSet |-> SubAnalysis(k, meta[i], subReply[i][k])])

AnalysesFromOutcomes == [i \in RepoIdx |-> AnalysisFromOutcomes(i)]

C23_ResponseFromOutcomesOnly ==
    PostJoin =>
        /\ successful = successfulOf(AnalysesFromOutcomes)
        /\ failed = failedOf(AnalysesFromOutcomes)
        /\ pc = "done" /\ respStatus = 200 =>
              respBody = handlerBody(analysisComplete(
                             successfulOf(AnalysesFromOutcomes),
                             failedOf(AnalysesFromOutcomes), plan))

\* A finished run with a rejected repository and a repository one of whose
\* findings is null while another is not.
C23_Witness ==
    /\ pc = "done"
    /\ respStatus = 200
    /\ \E i \in RepoIdx : MetaFailed(i)
    /\ \E j \in 1 .. Len(successful) :
          /\ Get(successful[j], "architecture") = JNull
          /\ Get(successful[j], "security") # JNull

(***************************************************************************)
(* C24: one synthesis request per analyze run: none before every           *)
(* repository's analysis has settled, exactly one once the join has        *)
(* resolved (also when `successful` is empty), and its prompt lists        *)
(* exactly the repositories of `successful`, in order, none of them a      *)
(* repository whose analysis failed.                                       *)
(***************************************************************************)
\* The join resolved and generateConsolidationPlan built its prompt.
SynthesisReached == pc \in {"synth", "store"} \/ (pc = "done" /\ plan # Idle)

C24_OneSynthesisRequest ==
    /\ Len(synthPrompts) <= 1
    /\ synthPrompts # << >> => AllSettled /\ PostJoin
    /\ SynthesisReached => Len(synthPrompts) = 1
    /\ \A n \in 1 .. Len(synthPrompts) :
          /\ Len(synthPrompts[n]) = Len(successful)
          /\ \A j \in 1 .. Len(successful) :
                /\ synthPrompts[n][j].name = Get(successful[j], "name")
                /\ \E i \in RepoIdx :
                      /\ MetaSucceeded(i)
                      /\ synthPrompts[n][j].name = JStr(repositories[i])
                      /\ synthPrompts[n][j].description = Get(meta[i], "description")
                      /\ synthPrompts[n][j].language = Get(meta[i], "language")

\* The request goes out once a reply to the prompt is awaited.
C24_IssuedAtTheJoin ==
    (synthPrompts' # synthPrompts) =>
        /\ pc = "fanout" /\ AllSettled
        /\ pc' = "synth"
        /\ Len(synthPrompts') = Len(synthPrompts) + 1

C24_ExactlyOneSynthesis ==
    [](C24_OneSynthesisRequest) /\ [][C24_IssuedAtTheJoin]_vars

\* A finished run in which every repository failed and the synthesis
\* request went out with an empty list.
C24_Witness ==
    /\ pc = "done"
    /\ \A i \in RepoIdx : MetaFailed(i)
    /\ successful = << >>
    /\ synthPrompts = << << >> >>

(***************************************************************************)
(* C25: a sub-analysis of a repository is requested only once the          *)
(* repository's metadata fetch has succeeded: a request is in flight or    *)
(* answered only for a repository with metadata, it goes out in the step   *)
(* in which the metadata arrives, and a repository whose metadata fetch    *)
(* failed never has a backend request or reply.                            *)
(***************************************************************************)
\* A backend request of sub-analysis k of entry i has been issued.
Requested(i, k) == sub[i][k] # Idle

C25_RequestedOnlyWithMetadata ==
    \A i \in RepoIdx :
        /\ \A k \in KindSet : Requested(i, k) => MetaSucceeded(i)
        /\ MetaFailed(i) =>
              \A k \in KindSet : ~Requested(i, k) /\ subReply[i][k] = Idle

C25_RequestFollowsMetadata ==
    \A i \in RepoIdx, k \in KindSet :
        (~Requested(i, k) /\ Requested(i, k)') =>
            /\ meta[i] = Pending
            /\ MetaSucceeded(i)'
            /\ sub'[i][k] = Pending

C25_NoRequestBeforeMetadata ==
    [](C25_RequestedOnlyWithMetadata) /\ [][C25_RequestFollowsMetadata]_vars

\* A finished run with a repository that failed and was never analysed and
\* a repository whose three backend requests were answered.
C25_Witness ==
    /\ pc = "done"
    /\ \E i \in RepoIdx :
          MetaFailed(i) /\ \A k \in KindSet : sub[i][k] = Idle
    /\ \E i \in RepoIdx :
          MetaSucceeded(i) /\ \A k \in KindSet : subReply[i][k] # Idle

(***************************************************************************)
(* C26: no sub-analysis retries: every backend reply settles the           *)
(* sub-analysis it answers, a settled sub-analysis issues nothing more,    *)
(* and the number of sub-analysis backend requests issued in a run is      *)
(* three times the number of repositories whose metadata fetch succeeded.  *)
(***************************************************************************)
MetadataSuccesses == Cardinality({i \in RepoIdx : MetaSucceeded(i)})

C26_ThreePerMetadataSuccess ==
    /\ backendRequests = 3 * MetadataSuccesses
    /\ backendRequests =
          Cardinality({ik \in RepoIdx \X KindSet : Requested(ik[1], ik[2])})

C26_ReplySettles ==
    \A i \in RepoIdx, k \in KindSet :
        /\ (subReply'[i][k] # subReply[i][k]) =>
              /\ subReply[i][k] = Idle
              /\ sub[i][k] = Pending
              /\ IsSettled(sub'[i][k])
              /\ backendRequests' = backendRequests
        /\ IsSettled(sub[i][k]) =>
              sub'[i][k] = sub[i][k] /\ subReply'[i][k] = subReply[i][k]

C26_NoRetries ==
    [](C26_ThreePerMetadataSuccess) /\ [][C26_ReplySettles]_vars

\* A finished run in which a backend request failed, another succeeded and
\* one of the repositories had no metadata.
C26_Witness ==
    /\ pc = "done"
    /\ MetadataSuccesses = 1
    /\ backendRequests = 3
    /\ \E i \in RepoIdx :
          /\ MetaSucceeded(i)
          /\ ~ResponseOk(subReply[i]["architecture"])
          /\ ResponseOk(subReply[i]["security"])

(***************************************************************************)
(* C27: every finding that is not null is complete: an architecture        *)
(* finding has its five fields, a security finding its five, a community   *)
(* finding its four, and every field holds a value (the backend's or the   *)
(* default), whatever the backend answered, a partial object and a         *)
(* raw-text fallback record included.                                      *)
(***************************************************************************)
FindingFields(kind) ==
    CASE kind = "architecture" ->
            {"patterns", "iac_approach", "integrations", "optimizations",
             "duplication_risk"}
      [] kind = "security" ->
            {"secrets_management", "access_control", "vulnerabilities",
             "compliance_score", "recommendations"}
      [] OTHER ->
            {"trends", "community_discussions", "similar_projects",
             "recommendations"}

WellFormed(kind, finding) ==
    /\ finding.t = "obj"
    /\ DOMAIN finding.v = FindingFields(kind)
    /\ \A field \in FindingFields(kind) :
          finding.v[field].t \notin {"undef", "null"}

C27_FindingsWellFormed ==
    /\ \A i \in RepoIdx, k \in KindSet :
          (IsSettled(sub[i][k]) /\ ~IsThrow(sub[i][k]) /\ sub[i][k] # JNull) =>
              WellFormed(k, sub[i][k])
    /\ \A j \in 1 .. Len(successful), k \in KindSet :
          Get(successful[j], k) # JNull => WellFormed(k, Get(successful[j], k))

\* A result in `successful` whose architecture finding comes from a partial
\* object (no iac_approach, no integrations) and whose community finding
\* comes from a raw-text fallback record.
C27_Witness ==
    \E i \in RepoIdx, j \in 1 .. Len(successful) :
        /\ NameOf(successful[j]) = repositories[i]
        /\ subReply[i]["architecture"] = Reply(200, TRUE, TextFindings)
        /\ subReply[i]["community_context"] = Reply(200, TRUE, TextProse)
        /\ Get(Get(successful[j], "architecture"), "iac_approach") = JStr("unknown")
        /\ Get(Get(successful[j], "community_context"), "trends") = EmptyArr

(***************************************************************************)
(* C28: the branch name of a change application is unique: an application  *)
(* never asks the host to create a branch that an earlier application to   *)
(* the same repository has created.                                        *)
(***************************************************************************)
C28_BranchNameIsNew ==
    apPc = "git.createRef" =>
        [repo |-> apRepo, name |-> apBranch] \notin hostRefs

(***************************************************************************)
(* C29: a change application returns a PullRequestRecord if and only if it *)
(* created a pull request on the host: when it ends, it returns a record   *)
(* exactly if a pull request of its own exists, and a null return leaves   *)
(* no pull request opened by it.                                           *)
(***************************************************************************)
\* The application in flight ends in this step.
ApplicationEnds == apPc # "idle" /\ apPc' = "idle"

\* The application in flight has created a pull request that the host holds.
CreatedPullRequest ==
    /\ apPr # 0
    /\ apPr \in 1 .. Len(hostPRs')
    /\ hostPRs'[apPr].repo = apRepo
    /\ hostPRs'[apPr].head = apBranch

C29_RecordIffCreated ==
    ApplicationEnds =>
        /\ (apResult'.t = "obj") <=> CreatedPullRequest
        /\ apResult' = JNull => ~CreatedPullRequest

C29_RecordIffPullRequest == [][C29_RecordIffCreated]_vars

(***************************************************************************)
(* C30: createOrUpdateFile issues its create write (the one without an     *)
(* identity token) only when the lookup of the path returned not-found:    *)
(* after a lookup that found the file, no create write for that path is    *)
(* in flight, whatever the update write came back with.                    *)
(***************************************************************************)
\* The write in flight is a create write.
CreateWriteInFlight ==
    /\ apPc = "createOrUpdateFileContents"
    /\ apWrite.t = "write"
    /\ apWrite.v.message = "Create"
    /\ apWrite.v.sha = NoSha

C30_CreateOnlyAfterNotFound ==
    CreateWriteInFlight =>
        /\ apLookup.status = 404
        /\ apWrite.v.path = apFiles[apFilePos].path

(***************************************************************************)
(* C31: a remediation run processes every repository that has an           *)
(* AnalysisResult in the analysis it was given: when the run has returned  *)
(* with every host request answered, the repositories it selected          *)
(* opportunities for are exactly the repositories of its input.            *)
(***************************************************************************)
\* The repositories with an AnalysisResult in the run's input.
AnalyzedNames == {Get(runInput[k], "name").v : k \in 1 .. Len(runInput)}

C31_EveryAnalyzedIsRemediated ==
    (runPc = "done" /\ faults = 0) => remediated = AnalyzedNames

====
